---- MODULE Spec2Model ----
(***************************************************************************)
(* HaruDB storage and transaction engine: in-memory tables with hash       *)
(* indexes, one JSON file per table, the write-ahead log and its replay,   *)
(* and the transaction manager (begin / queue / savepoint / commit /       *)
(* rollback).  Modelled from internal/storage/{memory,persist,wal,         *)
(* transaction}.go.                                                        *)
(***************************************************************************)
EXTENDS Integers, Sequences, FiniteSets, TLC

VARIABLES
    up,                  \* TRUE while a Database instance is open on the data directory
    tables,              \* Database.Tables: name -> Table (in memory)
    files,               \* the <name>.harudb files of the data directory
    wal,                 \* the records of wal.log, in file order
    walOpen,             \* FALSE once ReplayWAL returned early, leaving wm.walFile closed
    txObj,               \* the Transaction objects allocated by this instance, by ID
    transactions,        \* TransactionManager.transactions: the registered IDs
    nextID,              \* TransactionManager.nextID
    currentTransaction,  \* Database.currentTransaction (0 = nil)
    hung,                \* TRUE once a call has blocked forever on tx.mu
    calls,               \* per connection: the Insert its goroutine is inside, and where
    conns,               \* per connection: handleConnection's loop (open, waiting for a result)
    last,                \* the last call and what it returned
    scen                 \* history: the shape of the calls since the last BeginTransaction

vars == <<up, tables, files, wal, walOpen, txObj, transactions, nextID,
          currentTransaction, hung, calls, conns, last, scen>>

(***************************************************************************)
(* Bounds and input sets                                                   *)
(***************************************************************************)
MaxWal == 6
MaxOps == 2
MaxTx == 2
MaxCrash == 1
MaxCalls == 5

NameInputs == {"t1", "T1"}
ColumnInputs == {<<"c1">>, <<"c1", "c2">>}
RowInputs == {<<"a">>, <<"b">>, <<"a", "b">>}
\* a value of as many bytes as the read buffer of ReplayWAL holds, and a row of it
LongValue == "long"
LongRowInputs == {<<LongValue>>}
IndexInputs == {0, 1}
ValueInputs == {"a", "b"}
IndexColumnInputs == {"c1", "c2"}
\* the connections handleConnection serves; all of them call the one engine
ConnInputs == {1, 2}
SavepointInputs == {"s1"}
\* a savepoint name no CreateSavepoint call is given
UnknownSavepoint == "s2"

\* WALEntryType
WAL_CREATE_TABLE == 1
WAL_INSERT == 2
WAL_UPDATE == 3
WAL_DELETE == 4
WAL_DROP_TABLE == 5
WAL_CHECKPOINT == 6
WAL_BEGIN_TRANSACTION == 7
WAL_ROLLBACK_TRANSACTION == 9
WAL_SAVEPOINT == 10
WAL_ROLLBACK_TO_SAVEPOINT == 11

\* IsolationLevel
ReadUncommitted == 0
ReadCommitted == 1
RepeatableRead == 2
Serializable == 3
IsolationInputs == {ReadCommitted}
LevelInputs == {ReadUncommitted, ReadCommitted, RepeatableRead, Serializable}

(***************************************************************************)
(* Go values                                                               *)
(***************************************************************************)
EmptyMap == [x \in {} |-> 0]

MapPut(m, k, v) == [x \in (DOMAIN m) \cup {k} |-> IF x = k THEN v ELSE m[x]]

MapDelete(m, k) == [x \in (DOMAIN m) \ {k} |-> m[x]]

\* strings.ToLower on the table names in use
ToLower(s) == IF s = "T1" THEN "t1" ELSE s

\* strings.ToUpper on the statement words in use
ToUpper(s) ==
    CASE s = "begin" -> "BEGIN"
      [] s = "transaction" -> "TRANSACTION"
      [] s = "isolation" -> "ISOLATION"
      [] s = "level" -> "LEVEL"
      [] s = "read" -> "READ"
      [] s = "uncommitted" -> "UNCOMMITTED"
      [] OTHER -> s

\* for i, c := range cols { if c == name { idx = i; break } }; -1 when absent
ColIdx(cols, name) ==
    IF \E i \in 1..Len(cols) : cols[i] = name
    THEN (CHOOSE i \in 1..Len(cols) :
              cols[i] = name /\ \A j \in 1..(i - 1) : cols[j] # name) - 1
    ELSE -1

\* append(rows[:i], rows[i+1:]...), i zero-based
\* a removal that always drops the last row
RemoveLast(rows, i) == SubSeq(rows, 1, Len(rows) - 1)

RemoveAt(rows, i) ==
    [k \in 1..(Len(rows) - 1) |-> IF k <= i THEN rows[k] ELSE rows[k + 1]]

\* rows[i] = values, i zero-based
SetAt(rows, i, values) == [rows EXCEPT ![i + 1] = values]

\* a dynamically typed Go value: its dynamic type and its value
Dyn(type, val) == [type |-> type, val |-> val]

\* encoding/json: Marshal then Unmarshal into interface{}
JsonValue(d) ==
    IF d.type = "[]string" THEN Dyn("[]interface{}", d.val)
    ELSE IF d.type = "int" THEN Dyn("float64", d.val)
    ELSE d

JsonData(data) == [k \in DOMAIN data |-> JsonValue(data[k])]

\* data[key].(type): the comma-ok type assertion
IsType(data, key, type) == key \in DOMAIN data /\ data[key].type = type

(***************************************************************************)
(* Tables, indexes and table files                                         *)
(***************************************************************************)
ErrTableNotFound == "Table %s not found"

NewTable(name, columns) ==
    [Name |-> name, Columns |-> columns, Rows |-> <<>>,
     IndexedColumns |-> <<>>, Indexes |-> EmptyMap]

\* the row positions 0..n-1 in order
Positions(n) == [k \in 1..n |-> k - 1]

\* buildIndexForColumn: reset the index of columnName and fill it by a full scan
buildIndexForColumn(table, columnName) ==
    LET colIdx == ColIdx(table.Columns, columnName)
        rows == table.Rows
        hit(p) == colIdx < Len(rows[p + 1])
        vals == {rows[k][colIdx + 1] : k \in {j \in 1..Len(rows) : colIdx < Len(rows[j])}}
        idx == IF colIdx = -1 THEN EmptyMap
               ELSE [v \in vals |->
                        SelectSeq(Positions(Len(rows)),
                                  LAMBDA p : hit(p) /\ rows[p + 1][colIdx + 1] = v)]
    IN  [table EXCEPT !.Indexes = MapPut(table.Indexes, columnName, idx)]

RECURSIVE RebuildFrom(_, _)
RebuildFrom(table, k) ==
    IF k > Len(table.IndexedColumns) THEN table
    ELSE RebuildFrom(buildIndexForColumn(table, table.IndexedColumns[k]), k + 1)

\* a rebuild that leaves the indexes as they are
KeepIndexes(table) == table

\* rebuildAllIndexes: rebuild every configured index
rebuildAllIndexes(table) == RebuildFrom(table, 1)

\* one iteration of applyIndexesOnInsert's loop, for the indexed column col
IndexInsertOne(table, rowIndex, col) ==
    LET row == table.Rows[rowIndex + 1]
        colIdx == ColIdx(table.Columns, col)
    IN  IF colIdx = -1 \/ colIdx >= Len(row) THEN table
        ELSE LET val == row[colIdx + 1]
                 old == IF col \in DOMAIN table.Indexes THEN table.Indexes[col] ELSE EmptyMap
                 bucket == IF val \in DOMAIN old THEN old[val] ELSE <<>>
             IN  [table EXCEPT !.Indexes =
                     MapPut(table.Indexes, col, MapPut(old, val, Append(bucket, rowIndex)))]

RECURSIVE IndexInsertFrom(_, _, _)
IndexInsertFrom(table, rowIndex, k) ==
    IF k > Len(table.IndexedColumns) THEN table
    ELSE IndexInsertFrom(IndexInsertOne(table, rowIndex, table.IndexedColumns[k]),
                         rowIndex, k + 1)

\* an insert that leaves the indexes as they are
SkipIndexes(table, rowIndex) == table

\* applyIndexesOnInsert: add the new row's position to every index
applyIndexesOnInsert(table, rowIndex) == IndexInsertFrom(table, rowIndex, 1)

\* onDiskTable: what saveTable serialises (the index contents are not part of it)
onDiskTable(t) ==
    [name |-> t.Name, columns |-> t.Columns, rows |-> t.Rows,
     indexed_columns |-> t.IndexedColumns]

\* saveTable: temp file + rename; the file of t is replaced as a whole
saveTable(fs, t) == MapPut(fs, ToLower(t.Name), onDiskTable(t))

\* the Table loadTables builds from one file
LoadOne(disk) ==
    rebuildAllIndexes([Name |-> ToLower(disk.name), Columns |-> disk.columns,
                       Rows |-> disk.rows, IndexedColumns |-> disk.indexed_columns,
                       Indexes |-> EmptyMap])

\* loadTables: every .harudb file becomes a table, keyed by the name stored in it
loadTables(fs) ==
    [n \in {ToLower(fs[f].name) : f \in DOMAIN fs} |->
        LoadOne(fs[CHOOSE f \in DOMAIN fs : ToLower(fs[f].name) = n])]

(***************************************************************************)
(* Write-ahead log                                                         *)
(***************************************************************************)
NilData == EmptyMap

\* WriteEntry: the record as it reads back from the file (JSON)
WALEntry(entryType, tableName, data) ==
    [Type |-> entryType, TableName |-> tableName, Data |-> JsonData(data)]

WriteEntry(w, entryType, tableName, data) == Append(w, WALEntry(entryType, tableName, data))

\* a checkpoint that appends nothing
SkipCheckpoint(w) == w

WriteCheckpoint(w) == Append(w, WALEntry(WAL_CHECKPOINT, "", NilData))

\* replayEntry on the pair (tables, files)
replayEntry(db, entry) ==
    LET n == entry.TableName
        d == entry.Data
    IN  CASE entry.Type = WAL_CREATE_TABLE ->
                IF IsType(d, "columns", "[]interface{}")
                THEN LET t == [Name |-> n, Columns |-> d["columns"].val, Rows |-> <<>>,
                               IndexedColumns |-> <<>>, Indexes |-> EmptyMap]
                     IN  [tables |-> MapPut(db.tables, n, t), files |-> saveTable(db.files, t)]
                ELSE db
          [] entry.Type = WAL_INSERT ->
                IF IsType(d, "values", "[]interface{}") /\ n \in DOMAIN db.tables
                THEN LET t == [db.tables[n] EXCEPT !.Rows = Append(@, d["values"].val)]
                     IN  [tables |-> MapPut(db.tables, n, t), files |-> saveTable(db.files, t)]
                ELSE db
          [] entry.Type = WAL_UPDATE ->
                IF /\ IsType(d, "row_index", "float64")
                   /\ IsType(d, "values", "[]interface{}")
                   /\ n \in DOMAIN db.tables
                   /\ d["row_index"].val < Len(db.tables[n].Rows)
                THEN LET t == [db.tables[n] EXCEPT
                                  !.Rows = SetAt(@, d["row_index"].val, d["values"].val)]
                     IN  [tables |-> MapPut(db.tables, n, t), files |-> saveTable(db.files, t)]
                ELSE db
          [] entry.Type = WAL_DELETE ->
                IF /\ IsType(d, "row_index", "float64")
                   /\ n \in DOMAIN db.tables
                   /\ d["row_index"].val < Len(db.tables[n].Rows)
                THEN LET t == [db.tables[n] EXCEPT !.Rows = RemoveAt(@, d["row_index"].val)]
                     IN  [tables |-> MapPut(db.tables, n, t), files |-> saveTable(db.files, t)]
                ELSE db
          [] entry.Type = WAL_DROP_TABLE ->
                [tables |-> MapDelete(db.tables, n), files |-> MapDelete(db.files, ToLower(n))]
          [] OTHER -> db

RECURSIVE ReplayFrom(_, _, _)
ReplayFrom(db, w, k) ==
    IF k > Len(w) THEN db ELSE ReplayFrom(replayEntry(db, w[k]), w, k + 1)

(***************************************************************************)
(* The bytes of wal.log and the reader of ReplayWAL.  Every record is a     *)
(* 4-byte length followed by that many bytes of JSON.  Sizes are nominal:   *)
(* EntryOverhead bytes for the timestamp, type, names and punctuation, plus *)
(* the bytes of the values; LongValue stands for a value of BufSize bytes.  *)
(***************************************************************************)
\* the size of the buffer of bufio.NewReader
BufSize == 4096

EntryOverhead == 128

StrLen(s) == IF s = LongValue THEN BufSize ELSE 2

RECURSIVE SeqLen(_, _)
SeqLen(strs, k) == IF k > Len(strs) THEN 0 ELSE StrLen(strs[k]) + SeqLen(strs, k + 1)

\* the bytes of the lists of strings in a record's data
ValuesLen(d) ==
    (IF "values" \in DOMAIN d THEN SeqLen(d["values"].val, 1) ELSE 0)
        + (IF "columns" \in DOMAIN d THEN SeqLen(d["columns"].val, 1) ELSE 0)

\* a record cut short by a stop inside WriteEntry: kind is "length" (part of
\* the length prefix), "prefix" (the whole prefix, no payload) or "payload"
\* (the prefix and part of the payload)
TornRecord(kind) == [Type |-> 0, TableName |-> kind, Data |-> NilData]

IsTorn(entry) == entry.Type = 0

\* len(jsonData): the length the prefix of the record announces
EntryLen(entry) == EntryOverhead + ValuesLen(entry.Data)

\* the bytes of the record that are in the file
Present(entry) ==
    IF ~IsTorn(entry) THEN 4 + EntryLen(entry)
    ELSE IF entry.TableName = "length" THEN 2
    ELSE IF entry.TableName = "prefix" THEN 4
    ELSE 4 + EntryLen(entry) - 1

RECURSIVE FileSize(_, _)
FileSize(w, k) == IF k > Len(w) THEN 0 ELSE Present(w[k]) + FileSize(w, k + 1)

Min(a, b) == IF a < b THEN a ELSE b

\* The read loop of ReplayWAL from record k on.  pos is the offset of the next
\* unread byte, bufEnd the offset up to which the bufio buffer holds bytes.
\* binary.Read takes its 4 bytes with io.ReadFull; reader.Read(jsonData) is one
\* bufio Read: it hands over what the buffer holds (refilled once when empty,
\* or read straight from the file when the payload is no smaller than the
\* buffer) and may so return fewer bytes than asked.  count is the number of
\* records read whole, err whether the loop ended with an error.
RECURSIVE ReadFrom(_, _, _, _)
ReadFrom(w, k, pos, bufEnd) ==
    LET fileEnd == FileSize(w, 1)
        left == fileEnd - pos
    IN  IF left = 0 THEN [count |-> k - 1, err |-> FALSE]
        ELSE IF left < 4 THEN [count |-> k - 1, err |-> TRUE]
        ELSE LET end1 == IF bufEnd >= pos + 4 THEN bufEnd
                         ELSE Min(bufEnd + BufSize, fileEnd)
                 pos1 == pos + 4
                 length == EntryLen(w[k])
                 end2 == IF pos1 < end1 THEN end1
                         ELSE IF length >= BufSize THEN Min(pos1 + length, fileEnd)
                         ELSE Min(pos1 + BufSize, fileEnd)
                 n == Min(length, end2 - pos1)
             IN  IF n < length THEN [count |-> k - 1, err |-> TRUE]
                 ELSE ReadFrom(w, k + 1, pos1 + n, end2)

\* what the read loop of ReplayWAL gets out of the file
ReadLog(w) == ReadFrom(w, 1, 0, 0)

\* ReplayWAL: every record the read loop delivers, first to last
ReplayWAL(db, w) == ReplayFrom(db, SubSeq(w, 1, ReadLog(w).count), 1)

\* NewDatabase on a data directory: load the table files, then replay the WAL
Reopen(fs, w) == ReplayWAL([tables |-> loadTables(fs), files |-> fs], w)

(***************************************************************************)
(* Non-transactional operations.  db is [tables, files, wal]; the result   *)
(* adds res, the string the call returns.  stop names the point where the  *)
(* process is halted: "none" (the call runs to its return), "afterWAL"     *)
(* (WAL record synced, nothing else done) or "afterSave" (table file       *)
(* renamed, CHECKPOINT not yet written).                                   *)
(***************************************************************************)
Result(t, f, w, r) == [tables |-> t, files |-> f, wal |-> w, res |-> r]

Rejected(db, r) == Result(db.tables, db.files, db.wal, r)

\* the three stages after validation: WAL record, memory + file, CHECKPOINT.
\* When WriteEntry fails (the WAL file is closed) the call returns warn and
\* does nothing else.
Stages(db, entryType, name, data, t1, f1, ok, warn, stop) ==
    LET w1 == WriteEntry(db.wal, entryType, name, data)
    IN  IF ~db.open THEN Rejected(db, warn)
        ELSE IF stop = "afterWAL" THEN Result(db.tables, db.files, w1, "stopped")
        ELSE IF stop = "afterSave" THEN Result(t1, f1, w1, "stopped")
        ELSE Result(t1, f1, WriteCheckpoint(w1), ok)

CreateTableOn(db, name0, columns, stop) ==
    LET name == ToLower(name0)
        t == NewTable(name, columns)
    IN  IF name \in DOMAIN db.tables THEN Rejected(db, "Table %s already exists")
        ELSE Stages(db, WAL_CREATE_TABLE, name, [columns |-> Dyn("[]string", columns)],
                    MapPut(db.tables, name, t), saveTable(db.files, t),
                    "Table %s created",
                    "Table %s created (warning: failed to write to WAL: %v)", stop)

\* an insert that does not compare the value count with the column count
InsertUnchecked(db, name0, values, stop) ==
    LET name == ToLower(name0)
    IN  IF name \notin DOMAIN db.tables THEN Rejected(db, ErrTableNotFound)
        ELSE LET table == db.tables[name]
                 t == [table EXCEPT !.Rows = Append(@, values)]
             IN  Stages(db, WAL_INSERT, name, [values |-> Dyn("[]string", values)],
                        MapPut(db.tables, name, t), saveTable(db.files, t),
                        "1 row inserted",
                        "1 row inserted (warning: failed to write to WAL: %v)", stop)

InsertOn(db, name0, values, stop) ==
    LET name == ToLower(name0)
    IN  IF name \notin DOMAIN db.tables THEN Rejected(db, ErrTableNotFound)
        ELSE IF Len(values) # Len(db.tables[name].Columns)
        THEN Rejected(db, "Column count does not match")
        ELSE LET table == db.tables[name]
                 t == applyIndexesOnInsert([table EXCEPT !.Rows = Append(@, values)],
                                           Len(table.Rows))
             IN  Stages(db, WAL_INSERT, name, [values |-> Dyn("[]string", values)],
                        MapPut(db.tables, name, t), saveTable(db.files, t),
                        "1 row inserted",
                        "1 row inserted (warning: failed to write to WAL: %v)", stop)

UpdateOn(db, name0, rowIndex, values, stop) ==
    LET name == ToLower(name0)
    IN  IF name \notin DOMAIN db.tables THEN Rejected(db, ErrTableNotFound)
        ELSE IF rowIndex < 0 \/ rowIndex >= Len(db.tables[name].Rows)
        THEN Rejected(db, "Row index out of bounds")
        ELSE IF Len(values) # Len(db.tables[name].Columns)
        THEN Rejected(db, "Column count does not match")
        ELSE LET table == db.tables[name]
                 t == rebuildAllIndexes([table EXCEPT !.Rows = SetAt(@, rowIndex, values)])
             IN  Stages(db, WAL_UPDATE, name,
                        [row_index |-> Dyn("int", rowIndex), values |-> Dyn("[]string", values)],
                        MapPut(db.tables, name, t), saveTable(db.files, t),
                        "1 row updated",
                        "Row updated (warning: failed to write to WAL: %v)", stop)

DeleteOn(db, name0, rowIndex, stop) ==
    LET name == ToLower(name0)
    IN  IF name \notin DOMAIN db.tables THEN Rejected(db, ErrTableNotFound)
        ELSE IF rowIndex < 0 \/ rowIndex >= Len(db.tables[name].Rows)
        THEN Rejected(db, "Row index out of bounds")
        ELSE LET table == db.tables[name]
                 t == rebuildAllIndexes([table EXCEPT !.Rows = RemoveAt(@, rowIndex)])
             IN  Stages(db, WAL_DELETE, name, [row_index |-> Dyn("int", rowIndex)],
                        MapPut(db.tables, name, t), saveTable(db.files, t),
                        "1 row deleted",
                        "Row deleted (warning: failed to write to WAL: %v)", stop)

DropTableOn(db, name0, stop) ==
    LET name == ToLower(name0)
    IN  IF name \notin DOMAIN db.tables THEN Rejected(db, ErrTableNotFound)
        ELSE Stages(db, WAL_DROP_TABLE, name, NilData,
                    MapDelete(db.tables, name), MapDelete(db.files, ToLower(name)),
                    "Table %s dropped",
                    "Table dropped (warning: failed to write to WAL: %v)", stop)

\* CreateIndex writes no WAL record: memory, then the table file
CreateIndexOn(db, name0, columnName) ==
    LET name == ToLower(name0)
    IN  IF name \notin DOMAIN db.tables THEN Rejected(db, ErrTableNotFound)
        ELSE IF ColIdx(db.tables[name].Columns, columnName) = -1
        THEN Rejected(db, "Column %s not found")
        ELSE LET table == db.tables[name]
                 found == \E i \in 1..Len(table.IndexedColumns) :
                              table.IndexedColumns[i] = columnName
                 t0 == IF found THEN table
                       ELSE [table EXCEPT !.IndexedColumns = Append(@, columnName)]
                 t == buildIndexForColumn(t0, columnName)
             IN  Result(MapPut(db.tables, name, t), saveTable(db.files, t), db.wal,
                        "Index created on %s(%s)")

\* what a query returns: an error string, or the lines of its result (a line
\* is the sequence of fields that strings.Join puts " | " between)
Output(err, lines) == [err |-> err, lines |-> lines]

NoRows == <<"(no rows)">>

\* the rows at the positions of an index bucket that lie inside the table
BucketRows(table, rowIdxs) ==
    LET inside == SelectSeq(rowIdxs, LAMBDA ri : ri >= 0 /\ ri < Len(table.Rows))
    IN  [k \in 1..Len(inside) |-> table.Rows[inside[k] + 1]]

\* SelectWhere: rows whose columnName equals value, from the index of the
\* column when the table has one, by a full scan otherwise
SelectWhereOn(db, tableName0, columnName, value) ==
    LET tableName == ToLower(tableName0)
    IN  IF tableName \notin DOMAIN db.tables THEN Output(ErrTableNotFound, <<>>)
        ELSE LET table == db.tables[tableName]
                 header == <<table.Columns>>
                 colIdx == ColIdx(table.Columns, columnName)
                 matched == SelectSeq(table.Rows, LAMBDA row : row[colIdx + 1] = value)
             IN  IF columnName \in DOMAIN table.Indexes
                 THEN LET idxMap == table.Indexes[columnName]
                      IN  IF value \in DOMAIN idxMap
                          THEN Output("", header \o BucketRows(table, idxMap[value])
                                            \o (IF Len(idxMap[value]) = 0
                                                THEN <<NoRows>> ELSE <<>>))
                          ELSE Output("", header \o <<NoRows>>)
                 ELSE IF colIdx = -1 THEN Output("Column %s not found", <<>>)
                 ELSE Output("", header \o matched
                                   \o (IF Len(matched) = 0 THEN <<NoRows>> ELSE <<>>))

\* the comparison operators of a WHERE condition that compare strings as they are
OpEquals == 0
OpNotEquals == 1

WhereCondition(column, operator, value) ==
    [Column |-> column, Operator |-> operator, Value |-> value]

\* what ParseWhereClause builds: the conditions and the AND/OR between them
WhereExpression(conditions, logicOps) == [Conditions |-> conditions, LogicOps |-> logicOps]

\* WHERE c1 = 'a' | c2 = 'b' | c1 != 'a' | c1 = 'a' AND c2 = 'b' | c1 = 'a' OR c1 = 'b'
WhereInputs ==
    {WhereExpression(<<WhereCondition("c1", OpEquals, "a")>>, <<>>),
     WhereExpression(<<WhereCondition("c2", OpEquals, "b")>>, <<>>),
     WhereExpression(<<WhereCondition("c1", OpNotEquals, "a")>>, <<>>),
     WhereExpression(<<WhereCondition("c1", OpEquals, "a"),
                       WhereCondition("c2", OpEquals, "b")>>, <<"AND">>),
     WhereExpression(<<WhereCondition("c1", OpEquals, "a"),
                       WhereCondition("c1", OpEquals, "b")>>, <<"OR">>)}

\* EvaluateCondition: the cell of the condition's column against its value
EvaluateCondition(wc, row, columns) ==
    LET colIdx == ColIdx(columns, wc.Column)
    IN  IF colIdx = -1 THEN [match |-> FALSE, err |-> "column %s not found"]
        ELSE IF colIdx >= Len(row) THEN [match |-> FALSE, err |-> "column index out of bounds"]
        ELSE [match |-> IF wc.Operator = OpEquals THEN row[colIdx + 1] = wc.Value
                        ELSE row[colIdx + 1] # wc.Value,
              err |-> ""]

\* evaluateLogic: the results combined left to right, result being the value so far
RECURSIVE evaluateLogic(_, _, _, _)
evaluateLogic(results, logicOps, result, i) ==
    IF i > Len(logicOps) \/ i + 1 > Len(results) THEN result
    ELSE evaluateLogic(results, logicOps,
                       IF logicOps[i] = "AND" THEN result /\ results[i + 1]
                       ELSE IF logicOps[i] = "OR" THEN result \/ results[i + 1]
                       ELSE result,
                       i + 1)

\* an evaluator in which AND binds tighter than OR: the row matches when all
\* conditions of one run of AND-joined conditions hold
EvaluateWithPrecedence(we, row, columns) ==
    LET evals == [i \in 1..Len(we.Conditions) |->
                     EvaluateCondition(we.Conditions[i], row, columns)]
        n == Len(evals)
    IN  IF n = 0 THEN [match |-> TRUE, err |-> ""]
        ELSE IF \E i \in 1..n : evals[i].err # ""
        THEN [match |-> FALSE, err |-> "Error evaluating WHERE condition: %v"]
        ELSE [match |-> \E start \in 1..n :
                          /\ start = 1 \/ we.LogicOps[start - 1] = "OR"
                          /\ \A j \in start..n :
                                (\A m \in start..(j - 1) : we.LogicOps[m] = "AND")
                                   => evals[j].match,
              err |-> ""]

\* EvaluateExpression: every condition is evaluated, then the logic applied
EvaluateExpression(we, row, columns) ==
    LET evals == [i \in 1..Len(we.Conditions) |->
                     EvaluateCondition(we.Conditions[i], row, columns)]
        results == [i \in 1..Len(evals) |-> evals[i].match]
    IN  IF Len(we.Conditions) = 0 THEN [match |-> TRUE, err |-> ""]
        ELSE IF \E i \in 1..Len(evals) : evals[i].err # ""
        THEN [match |-> FALSE, err |-> "Error evaluating WHERE condition: %v"]
        ELSE [match |-> evaluateLogic(results, we.LogicOps, results[1], 1), err |-> ""]

\* SelectWhereAdvanced: every row of the table goes through the evaluator
SelectWhereAdvancedOn(db, tableName0, whereExpr) ==
    LET tableName == ToLower(tableName0)
    IN  IF tableName \notin DOMAIN db.tables THEN Output(ErrTableNotFound, <<>>)
        ELSE LET table == db.tables[tableName]
                 eval(row) == EvaluateExpression(whereExpr, row, table.Columns)
                 matched == SelectSeq(table.Rows, LAMBDA row : eval(row).match)
             IN  IF \E k \in 1..Len(table.Rows) : eval(table.Rows[k]).err # ""
                 THEN Output("Error evaluating WHERE condition: %v", <<>>)
                 ELSE Output("", <<table.Columns>> \o matched
                                   \o (IF Len(matched) = 0 THEN <<NoRows>> ELSE <<>>))

\* WHERE clauses as tokenizeWhere splits them:
\*   1  c1 = 'a'
\*   2  c1 = 'a' AND c2 = 'b'
\*   3  c1 = 'a' AND (c1 = 'a' OR c1 = 'b')
\*   4  c1 = 'a' OR c1 = 'a' AND c1 = 'b'
\*   5  (c1 = 'b' OR c1 = 'a') AND c1 = 'a'
\*   6  c1 != 'a' AND (c2 = 'a' OR c2 = 'b')
\*   7  AND c1 = 'a'
\*   8  (c1 = 'a'
\*   9  c1 = 'a')
\*   10 c1 =
\*   11 ()
\*   12 c1 = 'a' AND
\*   13 c1 = 'a' c1 = 'b'
\*   14 c1 = 'a' AND OR c1 = 'b'
\*   15 c1 ~ 'a'
\*   16 c1 = 'a' OR
WhereTokens ==
    <<
      <<"c1", "=", "a">>,
      <<"c1", "=", "a", "AND", "c2", "=", "b">>,
      <<"c1", "=", "a", "AND", "(", "c1", "=", "a", "OR", "c1", "=", "b", ")">>,
      <<"c1", "=", "a", "OR", "c1", "=", "a", "AND", "c1", "=", "b">>,
      <<"(", "c1", "=", "b", "OR", "c1", "=", "a", ")", "AND", "c1", "=", "a">>,
      <<"c1", "!=", "a", "AND", "(", "c2", "=", "a", "OR", "c2", "=", "b", ")">>,
      <<"AND", "c1", "=", "a">>,
      <<"(", "c1", "=", "a">>,
      <<"c1", "=", "a", ")">>,
      <<"c1", "=">>,
      <<"(", ")">>,
      <<"c1", "=", "a", "AND">>,
      <<"c1", "=", "a", "c1", "=", "b">>,
      <<"c1", "=", "a", "AND", "OR", "c1", "=", "b">>,
      <<"c1", "~", "a">>,
      <<"c1", "=", "a", "OR">>
    >>

\* parseCondition at tokens[start]: column, operator, value
parseCondition(tokens, start) ==
    IF start + 2 > Len(tokens)
    THEN [cond |-> WhereCondition("", OpEquals, ""), err |-> "incomplete condition"]
    ELSE IF tokens[start + 1] = "="
    THEN [cond |-> WhereCondition(tokens[start], OpEquals, tokens[start + 2]), err |-> ""]
    ELSE IF tokens[start + 1] \in {"!=", "<>"}
    THEN [cond |-> WhereCondition(tokens[start], OpNotEquals, tokens[start + 2]), err |-> ""]
    ELSE [cond |-> WhereCondition("", OpEquals, ""), err |-> "unsupported operator: %s"]

\* the WhereExpression under construction, Groups included
ParsedWhere(conditions, logicOps, groups) ==
    [Conditions |-> conditions, LogicOps |-> logicOps, Groups |-> groups]

WhereError(err) == [expr |-> ParsedWhere(<<>>, <<>>, <<>>), err |-> err]

\* parseWhereTokens from tokens[i] on: the parentheses move groupLevel, which
\* goes into Groups
RECURSIVE parseWhereTokens(_, _, _, _)
parseWhereTokens(tokens, i, groupLevel, expr) ==
    IF i > Len(tokens)
    THEN IF groupLevel # 0 THEN WhereError("unmatched parentheses")
         ELSE IF Len(expr.Conditions) = 0
         THEN WhereError("no conditions found in WHERE clause")
         ELSE [expr |-> expr, err |-> ""]
    ELSE CASE tokens[i] \in {"AND", "OR"} ->
                 IF Len(expr.Conditions) = 0
                 THEN WhereError("logic operator %s at start of expression")
                 ELSE parseWhereTokens(tokens, i + 1, groupLevel,
                         ParsedWhere(expr.Conditions, Append(expr.LogicOps, tokens[i]),
                                     Append(expr.Groups, groupLevel)))
           [] tokens[i] = "(" -> parseWhereTokens(tokens, i + 1, groupLevel + 1, expr)
           [] tokens[i] = ")" ->
                 IF groupLevel <= 0 THEN WhereError("unmatched closing parenthesis")
                 ELSE parseWhereTokens(tokens, i + 1, groupLevel - 1, expr)
           [] OTHER ->
                 LET c == parseCondition(tokens, i)
                 IN  IF c.err # "" THEN WhereError(c.err)
                     ELSE parseWhereTokens(tokens, i + 3, groupLevel,
                             ParsedWhere(Append(expr.Conditions, c.cond), expr.LogicOps,
                                         Append(expr.Groups, groupLevel)))

\* ParseWhereClause on the tokens of the clause
ParseWhereClause(tokens) ==
    IF Len(tokens) = 0 THEN WhereError("no valid tokens in WHERE clause")
    ELSE parseWhereTokens(tokens, 1, 0, ParsedWhere(<<>>, <<>>, <<>>))

\* Engine.Execute on SELECT * FROM tableName WHERE tokens
ExecuteSelectWhere(db, tableName, tokens) ==
    LET p == ParseWhereClause(tokens)
    IN  IF p.err # "" THEN Output("WHERE clause error: %v", <<>>)
        ELSE SelectWhereAdvancedOn(db, ToLower(tableName), p.expr)

\* Engine.Execute on SELECT * FROM t WHERE ...: the Database method it calls
\* and what that method returns
ExecuteSelect(db, tableName, whereExpr) ==
    [via |-> "SelectWhereAdvanced",
     out |-> SelectWhereAdvancedOn(db, ToLower(tableName), whereExpr)]

(***************************************************************************)
(* Transaction manager                                                     *)
(***************************************************************************)
\* TransactionState
TransactionActive == 0
TransactionCommitted == 1
TransactionRolledBack == 2
TransactionAborted == 3

\* the zero value of TransactionOperation
ZeroOp == [Type |-> 0, TableName |-> "", Data |-> NilData]

\* A Go slice of operations: arr is the backing array (Len(arr) is the capacity),
\* len the length; the elements arr[len+1..] are not visible but stay in memory.
MakeSlice == [arr |-> <<>>, len |-> 0]

\* the visible elements of a slice
Elems(s) == SubSeq(s.arr, 1, s.len)

\* append(s, x): in place while the capacity lasts, else a new array of twice the size
SliceAppend(s, x) ==
    IF s.len < Len(s.arr) THEN [arr |-> [s.arr EXCEPT ![s.len + 1] = x], len |-> s.len + 1]
    ELSE LET newcap == IF Len(s.arr) = 0 THEN 1 ELSE 2 * Len(s.arr)
         IN  [arr |-> [k \in 1..newcap |->
                          IF k <= s.len THEN s.arr[k]
                          ELSE IF k = s.len + 1 THEN x ELSE ZeroOp],
              len |-> s.len + 1]

\* s[:n], defined for n up to the capacity
SliceTo(s, n) == [arr |-> s.arr, len |-> n]

\* a transaction that keeps the default level whatever the caller asked for
NewTransactionDefault(id, isolationLevel) ==
    [ID |-> id, State |-> TransactionActive, IsolationLevel |-> ReadCommitted,
     Operations |-> MakeSlice, Savepoints |-> EmptyMap]

NewTransaction(id, isolationLevel) ==
    [ID |-> id, State |-> TransactionActive, IsolationLevel |-> isolationLevel,
     Operations |-> MakeSlice, Savepoints |-> EmptyMap]

\* a normalisation of every payload, as a JSON round trip would make it
NormalizeAll(opType, data) ==
    [k \in DOMAIN data |->
        IF k = "row_index" /\ data[k].type = "int" THEN Dyn("float64", data[k].val)
        ELSE IF data[k].type = "[]string" THEN Dyn("[]interface{}", data[k].val)
             ELSE data[k]]

\* the payload normalisation of AddOperation: WAL_UPDATE only
Normalize(opType, data) ==
    IF opType = WAL_UPDATE
    THEN [k \in DOMAIN data |->
            IF k = "row_index" /\ data[k].type = "int" THEN Dyn("float64", data[k].val)
            ELSE IF k = "values" /\ data[k].type = "[]string"
                 THEN Dyn("[]interface{}", data[k].val)
                 ELSE data[k]]
    ELSE data

\* AddOperation: objs is the Transaction heap, regs the registered IDs
AddOperation(objs, regs, txID, opType, tableName, data) ==
    IF txID \notin regs THEN [objs |-> objs, err |-> "transaction %s not found"]
    ELSE IF objs[txID].State # TransactionActive
    THEN [objs |-> objs, err |-> "transaction %s is not active"]
    ELSE [objs |-> [objs EXCEPT ![txID].Operations =
                       SliceAppend(@, [Type |-> opType, TableName |-> tableName,
                                       Data |-> Normalize(opType, data)])],
          err |-> ""]

Applied(t, f, e) == [tables |-> t, files |-> f, err |-> e]

applyCreateTable(db, tableName, columns) ==
    IF tableName \in DOMAIN db.tables THEN Applied(db.tables, db.files, "table %s already exists")
    ELSE LET t == NewTable(tableName, columns)
         IN  Applied(MapPut(db.tables, tableName, t), saveTable(db.files, t), "")

applyInsert(db, tableName, values) ==
    IF tableName \notin DOMAIN db.tables THEN Applied(db.tables, db.files, "table %s not found")
    ELSE IF Len(values) # Len(db.tables[tableName].Columns)
    THEN Applied(db.tables, db.files, "column count mismatch")
    ELSE LET table == db.tables[tableName]
             t == applyIndexesOnInsert([table EXCEPT !.Rows = Append(@, values)],
                                       Len(table.Rows))
         IN  Applied(MapPut(db.tables, tableName, t), saveTable(db.files, t), "")

applyUpdate(db, tableName, rowIndex, values) ==
    IF tableName \notin DOMAIN db.tables THEN Applied(db.tables, db.files, "table %s not found")
    ELSE IF rowIndex < 0 \/ rowIndex >= Len(db.tables[tableName].Rows)
    THEN Applied(db.tables, db.files, "row index %d out of bounds")
    ELSE IF Len(values) # Len(db.tables[tableName].Columns)
    THEN Applied(db.tables, db.files, "column count mismatch")
    ELSE LET table == db.tables[tableName]
             t == rebuildAllIndexes([table EXCEPT !.Rows = SetAt(@, rowIndex, values)])
         IN  Applied(MapPut(db.tables, tableName, t), saveTable(db.files, t), "")

applyDelete(db, tableName, rowIndex) ==
    IF tableName \notin DOMAIN db.tables THEN Applied(db.tables, db.files, "table %s not found")
    ELSE IF rowIndex < 0 \/ rowIndex >= Len(db.tables[tableName].Rows)
    THEN Applied(db.tables, db.files, "row index out of bounds")
    ELSE LET table == db.tables[tableName]
             t == rebuildAllIndexes([table EXCEPT !.Rows = RemoveAt(@, rowIndex)])
         IN  Applied(MapPut(db.tables, tableName, t), saveTable(db.files, t), "")

\* applyDropTable removes the table from memory only
applyDropTable(db, tableName) ==
    IF tableName \notin DOMAIN db.tables THEN Applied(db.tables, db.files, "table %s not found")
    ELSE Applied(MapDelete(db.tables, tableName), db.files, "")

\* applyOperation: the type switch with its payload type assertions
applyOperation(db, op) ==
    LET d == op.Data
    IN  CASE op.Type = WAL_CREATE_TABLE ->
                IF IsType(d, "columns", "[]interface{}")
                THEN applyCreateTable(db, op.TableName, d["columns"].val)
                ELSE Applied(db.tables, db.files, "invalid CREATE TABLE operation data")
          [] op.Type = WAL_INSERT ->
                IF IsType(d, "values", "[]interface{}")
                THEN applyInsert(db, op.TableName, d["values"].val)
                ELSE Applied(db.tables, db.files, "invalid INSERT operation data")
          [] op.Type = WAL_UPDATE ->
                IF IsType(d, "row_index", "float64") /\ IsType(d, "values", "[]interface{}")
                THEN applyUpdate(db, op.TableName, d["row_index"].val, d["values"].val)
                ELSE Applied(db.tables, db.files, "invalid UPDATE operation data")
          [] op.Type = WAL_DELETE ->
                IF IsType(d, "row_index", "float64")
                THEN applyDelete(db, op.TableName, d["row_index"].val)
                ELSE Applied(db.tables, db.files, "invalid DELETE operation data")
          [] op.Type = WAL_DROP_TABLE -> applyDropTable(db, op.TableName)
          [] OTHER -> Applied(db.tables, db.files, "unsupported operation type: %d")

\* the apply loop of CommitTransaction from operation k (one-based) on:
\* failed is the zero-based index of the operation that returned an error, or -1
RECURSIVE ApplyFrom(_, _, _)
ApplyFrom(db, ops, k) ==
    IF k > Len(ops) THEN [tables |-> db.tables, files |-> db.files, failed |-> -1]
    ELSE LET r == applyOperation(db, ops[k])
         IN  IF r.err # "" THEN [tables |-> db.tables, files |-> db.files, failed |-> k - 1]
             ELSE ApplyFrom([tables |-> r.tables, files |-> r.files], ops, k + 1)

\* the error that ends the apply loop of CommitTransaction from operation k
\* on, "" when every operation is applied
RECURSIVE CommitError(_, _, _)
CommitError(db, ops, k) ==
    IF k > Len(ops) THEN ""
    ELSE LET r == applyOperation(db, ops[k])
         IN  IF r.err # "" THEN r.err
             ELSE CommitError([tables |-> r.tables, files |-> r.files], ops, k + 1)

\* rollbackTransactionUnsafe on m = [objs, regs, wal]
rollbackTransactionUnsafe(m, txID) ==
    IF m.objs[txID].State # TransactionActive
    THEN [objs |-> m.objs, regs |-> m.regs, wal |-> m.wal,
          err |-> "transaction %s is not active"]
    ELSE IF ~m.open
    THEN [objs |-> [m.objs EXCEPT ![txID].State = TransactionRolledBack],
          regs |-> m.regs, wal |-> m.wal,
          err |-> "failed to write transaction rollback to WAL: %w"]
    ELSE [objs |-> [m.objs EXCEPT ![txID].State = TransactionRolledBack],
          regs |-> m.regs \ {txID},
          wal |-> WriteEntry(m.wal, WAL_ROLLBACK_TRANSACTION, "",
                             [transaction_id |-> Dyn("string", txID)]),
          err |-> ""]

\* TransactionManager.RollbackTransaction
RollbackOn(m, txID) ==
    IF txID \notin m.regs
    THEN [objs |-> m.objs, regs |-> m.regs, wal |-> m.wal, err |-> "transaction %s not found"]
    ELSE rollbackTransactionUnsafe(m, txID)

\* TransactionManager.CreateSavepoint
CreateSavepointOn(m, txID, savepointName) ==
    IF txID \notin m.regs
    THEN [objs |-> m.objs, regs |-> m.regs, wal |-> m.wal, err |-> "transaction %s not found"]
    ELSE IF m.objs[txID].State # TransactionActive
    THEN [objs |-> m.objs, regs |-> m.regs, wal |-> m.wal,
          err |-> "transaction %s is not active"]
    ELSE LET n == m.objs[txID].Operations.len
         IN  IF ~m.open
             THEN [objs |-> [m.objs EXCEPT ![txID].Savepoints = MapPut(@, savepointName, n)],
                   regs |-> m.regs, wal |-> m.wal,
                   err |-> "failed to write savepoint to WAL: %w"]
             ELSE
             [objs |-> [m.objs EXCEPT ![txID].Savepoints = MapPut(@, savepointName, n)],
              regs |-> m.regs,
              wal |-> WriteEntry(m.wal, WAL_SAVEPOINT, "",
                                 [transaction_id |-> Dyn("string", txID),
                                  savepoint_name |-> Dyn("string", savepointName),
                                  operation_index |-> Dyn("int", n)]),
              err |-> ""]

\* a rollback to a savepoint that takes an unknown name for the start of the
\* transaction
RollbackToStart(m, txID, savepointName) ==
    IF txID \notin m.regs
    THEN [objs |-> m.objs, regs |-> m.regs, wal |-> m.wal, err |-> "transaction %s not found"]
    ELSE IF m.objs[txID].State # TransactionActive
    THEN [objs |-> m.objs, regs |-> m.regs, wal |-> m.wal,
          err |-> "transaction %s is not active"]
    ELSE LET operationIndex == IF savepointName \in DOMAIN m.objs[txID].Savepoints
                               THEN m.objs[txID].Savepoints[savepointName] ELSE 0
         IN  [objs |-> [m.objs EXCEPT ![txID].Operations = SliceTo(@, operationIndex)],
              regs |-> m.regs,
              wal |-> WriteEntry(m.wal, WAL_ROLLBACK_TO_SAVEPOINT, "",
                                 [transaction_id |-> Dyn("string", txID),
                                  savepoint_name |-> Dyn("string", savepointName),
                                  operation_index |-> Dyn("int", operationIndex)]),
              err |-> ""]

\* TransactionManager.RollbackToSavepoint
RollbackToSavepointOn(m, txID, savepointName) ==
    IF txID \notin m.regs
    THEN [objs |-> m.objs, regs |-> m.regs, wal |-> m.wal, err |-> "transaction %s not found"]
    ELSE IF m.objs[txID].State # TransactionActive
    THEN [objs |-> m.objs, regs |-> m.regs, wal |-> m.wal,
          err |-> "transaction %s is not active"]
    ELSE IF savepointName \notin DOMAIN m.objs[txID].Savepoints
    THEN [objs |-> m.objs, regs |-> m.regs, wal |-> m.wal, err |-> "savepoint %s not found"]
    ELSE LET operationIndex == m.objs[txID].Savepoints[savepointName]
         IN  IF ~m.open
             THEN [objs |-> [m.objs EXCEPT ![txID].Operations = SliceTo(@, operationIndex)],
                   regs |-> m.regs, wal |-> m.wal,
                   err |-> "failed to write rollback to savepoint to WAL: %w"]
             ELSE
             [objs |-> [m.objs EXCEPT ![txID].Operations = SliceTo(@, operationIndex)],
              regs |-> m.regs,
              wal |-> WriteEntry(m.wal, WAL_ROLLBACK_TO_SAVEPOINT, "",
                                 [transaction_id |-> Dyn("string", txID),
                                  savepoint_name |-> Dyn("string", savepointName),
                                  operation_index |-> Dyn("int", operationIndex)]),
              err |-> ""]

(***************************************************************************)
(* State                                                                   *)
(***************************************************************************)
\* what SelectAll shows of every table: its columns and its row sequence
View(tbls) == [t \in DOMAIN tbls |-> [Columns |-> tbls[t].Columns, Rows |-> tbls[t].Rows]]

Returned(op, res) == [op |-> op, res |-> res, n |-> 0, via |-> "", out |-> Output("", <<>>), expect |-> EmptyMap]

NoScen == [phase |-> "none", owner |-> 0, issuer |-> 0, tables |-> EmptyMap, files |-> EmptyMap,
           opsA |-> <<>>, sp |-> ""]

DB == [tables |-> tables, files |-> files, wal |-> wal, open |-> walOpen]

TM == [objs |-> txObj, regs |-> transactions, wal |-> wal, open |-> walOpen]

\* the operations buffered in the current transaction
CurrentOps == Elems(txObj[currentTransaction].Operations)

\* a goroutine that is inside no call
Idle == [pc |-> "idle", name |-> "", values |-> <<>>, rows |-> <<>>]

NoCalls == [c \in ConnInputs |-> Idle]

\* handleConnection at its prompt, the connection open
NoConns == [c \in ConnInputs |-> [open |-> TRUE, waiting |-> FALSE]]

Init ==
    /\ up = TRUE
    /\ calls = NoCalls
    /\ conns = NoConns
    /\ tables = EmptyMap
    /\ files = EmptyMap
    /\ wal = <<>>
    /\ walOpen = TRUE
    /\ txObj = EmptyMap
    /\ transactions = {}
    /\ nextID = 1
    /\ currentTransaction = 0
    /\ hung = FALSE
    /\ last = Returned("NewDatabase", "opened")
    /\ scen = NoScen

txVars == <<txObj, transactions, nextID, currentTransaction>>

(***************************************************************************)
(* Actions: the non-transactional verbs of Database                        *)
(***************************************************************************)
\* the strings a verb returns when it rejects its arguments
Rejections ==
    {ErrTableNotFound, "Table %s already exists", "Column count does not match",
     "Row index out of bounds", "Column %s not found"}

\* a call that passed validation and ran to its return with result r,
\* the WAL holding at most limit records afterwards
Ran(op, r, limit) ==
    /\ r.res \notin Rejections
    /\ Len(r.wal) <= limit
    /\ tables' = r.tables
    /\ files' = r.files
    /\ wal' = r.wal
    /\ last' = Returned(op, r.res)
    /\ UNCHANGED <<conns, calls, up, hung, walOpen, txVars>>

CreateTable(name, columns) ==
    up /\ ~hung /\ Ran("CreateTable", CreateTableOn(DB, name, columns, "none"), 2 * MaxCalls)

Insert(name, values) ==
    up /\ ~hung /\ Ran("Insert", InsertOn(DB, name, values, "none"), 2 * MaxCalls)

Update(name, rowIndex, values) ==
    up /\ ~hung /\ Ran("Update", UpdateOn(DB, name, rowIndex, values, "none"), 2 * MaxCalls)

Delete(name, rowIndex) ==
    up /\ ~hung /\ Ran("Delete", DeleteOn(DB, name, rowIndex, "none"), 2 * MaxCalls)

DropTable(name) ==
    up /\ ~hung /\ Ran("DropTable", DropTableOn(DB, name, "none"), 2 * MaxCalls)

CreateIndex(name, columnName) ==
    up /\ ~hung /\ Ran("CreateIndex", CreateIndexOn(DB, name, columnName), 2 * MaxCalls)

\* a query: the state stays as it is, the output goes to the caller
SelectWhere(name, columnName, value) ==
    /\ up /\ ~hung
    /\ last' = [Returned("SelectWhere", "") EXCEPT
                   !.out = SelectWhereOn(DB, name, columnName, value)]
    /\ UNCHANGED <<conns, calls, up, hung, tables, files, wal, walOpen, txVars>>

\* SELECT * FROM name WHERE whereExpr through the engine
Select(name, whereExpr) ==
    /\ up /\ ~hung
    /\ LET r == ExecuteSelect(DB, name, whereExpr)
       IN  last' = [Returned("Select", "") EXCEPT !.via = r.via, !.out = r.out]
    /\ UNCHANGED <<conns, calls, up, hung, tables, files, wal, walOpen, txVars>>

(***************************************************************************)
(* Actions: the transaction-aware verbs (what Engine.Execute calls)        *)
(***************************************************************************)
\* the call returns the error r without touching anything
Refused(op, r) ==
    /\ last' = Returned(op, r)
    /\ UNCHANGED <<conns, calls, up, hung, tables, files, wal, walOpen, txVars>>

\* SELECT * FROM name WHERE the k-th clause of WhereTokens, through the engine
SelectStatement(name, k) ==
    /\ up /\ ~hung
    /\ last' = [Returned("SelectStatement", "") EXCEPT
                   !.n = k, !.out = ExecuteSelectWhere(DB, name, WhereTokens[k])]
    /\ UNCHANGED <<conns, calls, up, hung, tables, files, wal, walOpen, txVars>>

\* a write-through verb: the operation is applied to the tables at once
\* instead of being buffered
AppliedAtOnce(op, opType, name, data, ok) ==
    LET r == applyOperation([tables |-> tables, files |-> files],
                            [Type |-> opType, TableName |-> name, Data |-> JsonData(data)])
    IN  /\ tables' = r.tables
        /\ files' = r.files
        /\ last' = Returned(op, ok)
        /\ UNCHANGED <<conns, calls, up, hung, wal, walOpen, txVars>>

\* the verb hands the operation to AddOperation of the current transaction
Queued(op, opType, name, data, ok) ==
    LET a == AddOperation(txObj, transactions, currentTransaction, opType, name, data)
    IN  /\ txObj[currentTransaction].Operations.len < MaxOps
        /\ txObj' = a.objs
        /\ last' = Returned(op, IF a.err = "" THEN ok
                                ELSE "Failed to add operation to transaction: %v")
        /\ UNCHANGED <<conns, calls, up, hung, tables, files, wal, walOpen, transactions, nextID,
                       currentTransaction>>

CreateTableTx(name0, columns) ==
    LET name == ToLower(name0)
    IN  /\ up /\ ~hung
        /\ name \notin DOMAIN tables
        /\ IF currentTransaction # 0
           THEN Queued("CreateTableTx", WAL_CREATE_TABLE, name,
                       [columns |-> Dyn("[]string", columns)],
                       "Table %s creation queued in transaction")
           ELSE Ran("CreateTableTx", CreateTableOn(DB, name, columns, "none"), MaxWal)

\* the validation InsertTx runs against db.Tables before it looks at the
\* transaction: the error it returns, "" when it goes on
InsertTxCheck(tbls, name0, values) ==
    LET name == ToLower(name0)
    IN  IF name \notin DOMAIN tbls THEN ErrTableNotFound
        ELSE IF Len(values) # Len(tbls[name].Columns) THEN "Column count does not match"
        ELSE ""

\* the validation of UpdateTx
UpdateTxCheck(tbls, name0, rowIndex, values) ==
    LET name == ToLower(name0)
    IN  IF name \notin DOMAIN tbls THEN ErrTableNotFound
        ELSE IF rowIndex < 0 \/ rowIndex >= Len(tbls[name].Rows) THEN "Row index out of bounds"
        ELSE IF Len(values) # Len(tbls[name].Columns) THEN "Column count does not match"
        ELSE ""

\* the validation of DeleteTx
DeleteTxCheck(tbls, name0, rowIndex) ==
    LET name == ToLower(name0)
    IN  IF name \notin DOMAIN tbls THEN ErrTableNotFound
        ELSE IF rowIndex < 0 \/ rowIndex >= Len(tbls[name].Rows) THEN "Row index out of bounds"
        ELSE ""

InsertTx(name0, values) ==
    LET name == ToLower(name0)
    IN  /\ up /\ ~hung
        /\ InsertTxCheck(tables, name0, values) = ""
        /\ IF currentTransaction # 0
           THEN Queued("InsertTx", WAL_INSERT, name, [values |-> Dyn("[]string", values)],
                       "1 row insert queued in transaction")
           ELSE Ran("InsertTx", InsertOn(DB, name, values, "none"), MaxWal)

UpdateTx(name0, rowIndex, values) ==
    LET name == ToLower(name0)
    IN  /\ up /\ ~hung
        /\ UpdateTxCheck(tables, name0, rowIndex, values) = ""
        /\ IF currentTransaction # 0
           THEN Queued("UpdateTx", WAL_UPDATE, name,
                       [row_index |-> Dyn("int", rowIndex),
                        values |-> Dyn("[]string", values)],
                       "1 row update queued in transaction")
           ELSE Ran("UpdateTx", UpdateOn(DB, name, rowIndex, values, "none"), MaxWal)

DeleteTx(name0, rowIndex) ==
    LET name == ToLower(name0)
    IN  /\ up /\ ~hung
        /\ DeleteTxCheck(tables, name0, rowIndex) = ""
        /\ IF currentTransaction # 0
           THEN Queued("DeleteTx", WAL_DELETE, name, [row_index |-> Dyn("int", rowIndex)],
                       "1 row delete queued in transaction")
           ELSE Ran("DeleteTx", DeleteOn(DB, name, rowIndex, "none"), MaxWal)

DropTableTx(name0) ==
    LET name == ToLower(name0)
    IN  /\ up /\ ~hung
        /\ name \in DOMAIN tables
        /\ IF currentTransaction # 0
           THEN Queued("DropTableTx", WAL_DROP_TABLE, name, NilData,
                       "Table %s drop queued in transaction")
           ELSE Ran("DropTableTx", DropTableOn(DB, name, "none"), MaxWal)

(***************************************************************************)
(* Actions: BEGIN / COMMIT / ROLLBACK / SAVEPOINT                          *)
(***************************************************************************)
\* When WriteEntry fails the transaction stays registered, the manager returns
\* the error and Database.BeginTransaction leaves currentTransaction as it was.
BeginTransaction(isolationLevel) ==
    /\ up /\ ~hung
    /\ txObj' = MapPut(txObj, nextID, NewTransaction(nextID, isolationLevel))
    /\ transactions' = transactions \cup {nextID}
    /\ nextID' = nextID + 1
    /\ IF walOpen
       THEN /\ Len(wal) < MaxWal
            /\ Cardinality({k \in 1..Len(wal) : wal[k].Type = WAL_BEGIN_TRANSACTION}) < MaxTx
            /\ wal' = WriteEntry(wal, WAL_BEGIN_TRANSACTION, "",
                                 [isolation_level |-> Dyn("int", isolationLevel)])
            /\ currentTransaction' = nextID
            /\ last' = [Returned("BeginTransaction", "") EXCEPT !.n = isolationLevel]
       ELSE /\ nextID <= MaxTx
            /\ wal' = wal
            /\ currentTransaction' = currentTransaction
            /\ last' = Returned("BeginTransaction",
                                "failed to write transaction begin to WAL: %w")
    /\ UNCHANGED <<conns, calls, up, hung, tables, files, walOpen>>

\* the words of the BEGIN statements, as strings.Fields splits them
BeginWords == <<"BEGIN", "TRANSACTION", "ISOLATION", "LEVEL">>
BeginInputs ==
    {<<"BEGIN">>, <<"BEGIN", "TRANSACTION">>,
     BeginWords \o <<"READ", "UNCOMMITTED">>,
     BeginWords \o <<"READ", "COMMITTED">>,
     BeginWords \o <<"REPEATABLE", "READ">>,
     BeginWords \o <<"SERIALIZABLE">>,
     BeginWords \o <<"SNAPSHOT">>,
     BeginWords \o <<"SNAPSHOT", "READ">>,
     BeginWords \o <<"READ", "SNAPSHOT">>,
     BeginWords \o <<"REPEATABLE", "WRITE">>,
     <<"begin", "transaction", "isolation", "level", "read", "uncommitted">>}

\* the level handleBeginTransaction passes on, or the error it returns
Parsed(level, err) == [level |-> level, err |-> err]

handleBeginTransactionWords(parts) ==
    IF Len(parts) >= 3 /\ ToUpper(parts[2]) = "TRANSACTION"
       /\ Len(parts) >= 6 /\ ToUpper(parts[3]) = "ISOLATION" /\ ToUpper(parts[4]) = "LEVEL"
    THEN CASE ToUpper(parts[5]) = "READ" ->
                 IF Len(parts) >= 6 /\ ToUpper(parts[6]) = "UNCOMMITTED"
                 THEN Parsed(ReadUncommitted, "")
                 ELSE Parsed(ReadCommitted, "")
           [] ToUpper(parts[5]) = "REPEATABLE" ->
                 IF Len(parts) >= 6 /\ ToUpper(parts[6]) = "READ"
                 THEN Parsed(RepeatableRead, "")
                 ELSE Parsed(ReadCommitted, "")
           [] ToUpper(parts[5]) = "SERIALIZABLE" -> Parsed(Serializable, "")
           [] OTHER -> Parsed(ReadCommitted, "Invalid isolation level")
    ELSE Parsed(ReadCommitted, "")

\* Engine.handleBeginTransaction
handleBeginTransaction(parts) ==
    LET p == handleBeginTransactionWords(parts)
    IN  IF p.err # ""
        THEN up /\ ~hung /\ Refused("handleBeginTransaction", p.err)
        ELSE BeginTransaction(p.level)

\* Database.CommitTransaction and TransactionManager.CommitTransaction.  When an
\* operation fails, CommitTransaction calls rollbackTransactionUnsafe with tx.mu
\* held; rollbackTransactionUnsafe locks tx.mu again and the call never returns.
CommitOf(op, txID) ==
    IF txID \notin transactions
    THEN Refused(op, "transaction %s not found")
    ELSE IF txObj[txID].State # TransactionActive
    THEN Refused(op, "transaction %s is not active")
    ELSE LET ops == Elems(txObj[txID].Operations)
             r == ApplyFrom([tables |-> tables, files |-> files], ops, 1)
         IN  /\ tables' = r.tables
             /\ files' = r.files
             /\ IF r.failed = -1
                THEN /\ txObj' = [txObj EXCEPT ![txID].State = TransactionCommitted]
                     /\ transactions' = transactions \ {txID}
                     /\ currentTransaction' =
                            IF op = "CommitTransaction" THEN 0 ELSE currentTransaction
                     /\ hung' = FALSE
                     /\ last' = [Returned(op, "") EXCEPT !.n = Len(ops)]
                ELSE /\ hung' = TRUE
                     /\ last' = [Returned(op, "blocked") EXCEPT !.n = r.failed]
                     /\ UNCHANGED <<txObj, transactions, currentTransaction>>
             /\ UNCHANGED <<conns, calls, up, wal, walOpen, nextID>>

\* Database.CommitTransaction: the commit of the current transaction
CommitTransaction ==
    /\ up /\ ~hung
    /\ currentTransaction # 0
    /\ CommitOf("CommitTransaction", currentTransaction)

\* a call into the manager that returned m (state) and m.err
Managed(op, m) ==
    /\ Len(m.wal) <= MaxWal
    /\ txObj' = m.objs
    /\ transactions' = m.regs
    /\ wal' = m.wal
    /\ last' = Returned(op, m.err)
    /\ UNCHANGED <<conns, calls, up, hung, tables, files, walOpen, nextID>>

RollbackTransaction ==
    /\ up /\ ~hung
    /\ currentTransaction # 0
    /\ LET m == RollbackOn(TM, currentTransaction)
       IN  /\ Managed("RollbackTransaction", m)
           /\ currentTransaction' = IF m.err = "" THEN 0 ELSE currentTransaction

CreateSavepoint(name) ==
    /\ up /\ ~hung
    /\ currentTransaction # 0
    /\ Managed("CreateSavepoint", CreateSavepointOn(TM, currentTransaction, name))
    /\ UNCHANGED currentTransaction

RollbackToSavepoint(name) ==
    /\ up /\ ~hung
    /\ currentTransaction # 0
    /\ Managed("RollbackToSavepoint", RollbackToSavepointOn(TM, currentTransaction, name))
    /\ UNCHANGED currentTransaction

\* the Database-level transaction calls made while db.currentTransaction is nil
NoTransaction(op) ==
    /\ up /\ ~hung
    /\ currentTransaction = 0
    /\ Refused(op, "no active transaction")

\* transaction IDs handed to the manager: issued ones and one never issued
TxIDInputs == 1..(MaxTx + 1)

\* TransactionManager.CommitTransaction(txID), called on the manager itself
ManagerCommit(txID) ==
    up /\ ~hung /\ CommitOf("TransactionManager.CommitTransaction", txID)

\* TransactionManager.RollbackTransaction(txID), called on the manager itself
ManagerRollback(txID) ==
    /\ up /\ ~hung
    /\ Managed("TransactionManager.RollbackTransaction", RollbackOn(TM, txID))
    /\ UNCHANGED currentTransaction

(***************************************************************************)
(* Insert as the steps a goroutine takes.  Database has no lock: only       *)
(* WriteEntry and WriteCheckpoint are serialised (wm.mu).  The append to    *)
(* table.Rows is a read of the slice followed by a write of it, and another *)
(* goroutine can run between the two.                                       *)
(***************************************************************************)
\* Insert up to the return of WriteEntry: validation, then the WAL record
InsertLog(c, name0, values) ==
    LET name == ToLower(name0)
    IN  /\ up /\ ~hung /\ walOpen
        /\ currentTransaction = 0
        /\ calls[c].pc = "idle"
        /\ InsertTxCheck(tables, name0, values) = ""
        /\ Len(wal) + 2 <= MaxWal
        /\ wal' = WriteEntry(wal, WAL_INSERT, name, [values |-> Dyn("[]string", values)])
        /\ calls' = [calls EXCEPT ![c] = [pc |-> "logged", name |-> name,
                                          values |-> values, rows |-> <<>>]]
        /\ last' = Returned("Insert", "in progress")
        /\ UNCHANGED <<up, hung, tables, files, walOpen, txVars>>

\* append(table.Rows, values), first half: the slice is read
InsertRead(c) ==
    /\ up /\ ~hung
    /\ calls[c].pc = "logged"
    /\ calls' = [calls EXCEPT ![c].pc = "read", ![c].rows = tables[calls[c].name].Rows]
    /\ last' = Returned("Insert", "in progress")
    /\ UNCHANGED <<up, hung, tables, files, wal, walOpen, txVars>>

\* second half: the slice with the new row is stored in table.Rows; then the
\* index update, saveTable, the CHECKPOINT and the return
InsertApply(c) ==
    LET name == calls[c].name
        table == [tables[name] EXCEPT !.Rows = Append(calls[c].rows, calls[c].values)]
        t == applyIndexesOnInsert(table, Len(table.Rows) - 1)
    IN  /\ up /\ ~hung
        /\ calls[c].pc = "read"
        /\ tables' = MapPut(tables, name, t)
        /\ files' = saveTable(files, t)
        /\ wal' = WriteCheckpoint(wal)
        /\ calls' = [calls EXCEPT ![c] = Idle]
        /\ last' = Returned("Insert", "1 row inserted")
        /\ UNCHANGED <<up, hung, walOpen, txVars>>

\* WALManager.TruncateWAL: the file is closed, cut to length zero and opened
\* again for appending
TruncateWAL ==
    /\ up /\ ~hung
    /\ \A c \in ConnInputs : calls[c].pc = "idle"
    /\ wal' = <<>>
    /\ walOpen' = TRUE
    /\ last' = Returned("TruncateWAL", "")
    /\ UNCHANGED <<conns, calls, up, hung, tables, files, txVars>>

\* the writes to wal.log start to fail (disk full, I/O error): from here on
\* WriteEntry and WriteCheckpoint return an error
WalFault ==
    /\ up /\ ~hung /\ walOpen
    /\ \A c \in ConnInputs : calls[c].pc = "idle"
    /\ walOpen' = FALSE
    /\ last' = Returned("WalFault", "")
    /\ UNCHANGED <<conns, calls, up, hung, tables, files, wal, txVars>>

(***************************************************************************)
(* handleConnection: one goroutine per connection reads a statement,       *)
(* starts engine.Execute in a goroutine of its own and waits for the       *)
(* result or for ten seconds, whichever comes first.                       *)
(***************************************************************************)
\* go func() { resultChan <- engine.Execute(input) }(): an INSERT is under way.
\* A connection starts its next statement once the engine call of the previous
\* one has returned.
Submit(c, name0, values) ==
    /\ conns[c].open /\ ~conns[c].waiting
    /\ InsertLog(c, name0, values)
    /\ conns' = [conns EXCEPT ![c].waiting = TRUE]

\* the engine call goes on, whether or not its connection still waits for it
Proceed(c) == InsertRead(c) /\ UNCHANGED conns

\* the engine call returns; case result = <-resultChan when the handler waits
Deliver(c) ==
    /\ InsertApply(c)
    /\ conns' = [conns EXCEPT ![c].waiting = FALSE]

\* case <-time.After(10 * time.Second): the handler writes the timeout message
\* and goes back to its prompt
Timeout(c) ==
    /\ up /\ conns[c].open /\ conns[c].waiting
    /\ calls[c].pc # "idle"
    /\ conns' = [conns EXCEPT ![c].waiting = FALSE]
    /\ last' = Returned("handleConnection", "Error: Command timed out after 10 seconds")
    /\ UNCHANGED <<calls, up, hung, tables, files, wal, walOpen, txVars>>

\* input == "exit": the loop ends and the deferred conn.Close() runs
Exit(c) ==
    /\ up /\ conns[c].open /\ ~conns[c].waiting
    /\ conns' = [conns EXCEPT ![c].open = FALSE]
    /\ last' = Returned("handleConnection", "Goodbye")
    /\ UNCHANGED <<calls, up, hung, tables, files, wal, walOpen, txVars>>

(***************************************************************************)
(* Process stop and restart                                                *)
(***************************************************************************)
\* the non-transactional mutations a process can be stopped in
Calls ==
    [verb : {"CreateTable"}, name : NameInputs, columns : ColumnInputs]
        \cup [verb : {"Insert"}, name : NameInputs, values : RowInputs]
        \cup [verb : {"Update"}, name : NameInputs, rowIndex : IndexInputs, values : RowInputs]
        \cup [verb : {"Delete"}, name : NameInputs, rowIndex : IndexInputs]
        \cup [verb : {"DropTable"}, name : NameInputs]

RunOn(db, c, stop) ==
    CASE c.verb = "CreateTable" -> CreateTableOn(db, c.name, c.columns, stop)
      [] c.verb = "Insert" -> InsertOn(db, c.name, c.values, stop)
      [] c.verb = "Update" -> UpdateOn(db, c.name, c.rowIndex, c.values, stop)
      [] c.verb = "Delete" -> DeleteOn(db, c.name, c.rowIndex, stop)
      [] c.verb = "DropTable" -> DropTableOn(db, c.name, stop)

\* row indexes outside every table of the model: negative, and past the last row
OutsideInputs == {-1, MaxCalls}

\* the calls of Calls and the calls with a row index from OutsideInputs
AllCalls ==
    Calls \cup [verb : {"Update"}, name : NameInputs, rowIndex : OutsideInputs, values : RowInputs]
          \cup [verb : {"Delete"}, name : NameInputs, rowIndex : OutsideInputs]

\* a non-transactional mutation that returns one of its validation errors
Reject(c) ==
    /\ up /\ ~hung
    /\ LET r == RunOn(DB, c, "none")
       IN  /\ r.res \in Rejections
           /\ tables' = r.tables
           /\ files' = r.files
           /\ wal' = r.wal
           /\ last' = Returned(c.verb, r.res)
    /\ UNCHANGED <<conns, calls, up, hung, walOpen, txVars>>

\* the mutation records of w that no CHECKPOINT follows: one per process stop
Stops(w) ==
    Cardinality({k \in 1..Len(w) :
        /\ w[k].Type \in {WAL_CREATE_TABLE, WAL_INSERT, WAL_UPDATE, WAL_DELETE, WAL_DROP_TABLE}
        /\ (k = Len(w) \/ w[k + 1].Type # WAL_CHECKPOINT)})

\* The process stops inside the non-transactional mutation c, after its WAL record
\* was synced: memory is lost, the directory keeps what was written up to stop.
\* last.expect remembers the tables the call would have left had it returned.
Crash(c, stop) ==
    LET r == RunOn(DB, c, stop)
        whole == RunOn(DB, c, "none")
    IN  /\ up /\ ~hung
        /\ currentTransaction = 0
        /\ r.res = "stopped"
        /\ Stops(wal) < MaxCrash
        /\ Len(r.wal) <= MaxWal
        /\ up' = FALSE
        /\ calls' = calls
        /\ conns' = conns
        /\ tables' = EmptyMap
        /\ files' = r.files
        /\ wal' = r.wal
        /\ walOpen' = FALSE
        /\ txObj' = EmptyMap
        /\ transactions' = {}
        /\ nextID' = 1
        /\ currentTransaction' = 0
        /\ hung' = FALSE
        /\ last' = [op |-> "Crash", res |-> stop, n |-> 0, via |-> "", out |-> Output("", <<>>), expect |-> View(whole.tables)]

\* The process stops inside WriteEntry of the non-transactional mutation c: the
\* record is in the file in part only (kind says how much of it), nothing else
\* was done.  last.expect remembers the tables before the call.
Tear(c, kind) ==
    LET r == RunOn(DB, c, "afterWAL")
    IN  /\ up /\ ~hung
        /\ currentTransaction = 0
        /\ r.res = "stopped"
        /\ Len(r.wal) <= MaxWal
        /\ up' = FALSE
        /\ calls' = calls
        /\ conns' = conns
        /\ tables' = EmptyMap
        /\ files' = files
        /\ wal' = Append(wal, TornRecord(kind))
        /\ walOpen' = FALSE
        /\ txObj' = EmptyMap
        /\ transactions' = {}
        /\ nextID' = 1
        /\ currentTransaction' = 0
        /\ hung' = FALSE
        /\ last' = [op |-> "Tear", res |-> kind, n |-> 0, via |-> "", out |-> Output("", <<>>), expect |-> View(tables)]

\* NewDatabase on the data directory: a fresh transaction manager, loadTables,
\* then ReplayWAL; when ReplayWAL returns an error NewDatabase prints a warning
\* and goes on, the WAL file staying closed.  last.expect is the view the
\* previous instance had (or, after a stop inside a mutation, would have had).
NewDatabase ==
    LET r == Reopen(files, wal)
    IN  /\ up' = TRUE
        /\ calls' = NoCalls
        /\ conns' = NoConns
        /\ tables' = r.tables
        /\ files' = r.files
        /\ wal' = wal
        /\ walOpen' = ~ReadLog(wal).err
        /\ txObj' = EmptyMap
        /\ transactions' = {}
        /\ nextID' = 1
        /\ currentTransaction' = 0
        /\ hung' = FALSE
        /\ last' = [op |-> "NewDatabase",
                    res |-> IF last.op = "Crash" THEN "recovered"
                            ELSE IF last.op = "Tear" THEN "torn" ELSE "reopened",
                    n |-> 0,
                    via |-> "", out |-> Output("", <<>>), expect |-> IF last.op \in {"Crash", "Tear"} THEN last.expect
                               ELSE View(tables)]

(***************************************************************************)
(* History of the calls since the last BeginTransaction.  phase is         *)
(*   "A"  BEGIN, then only transactional verbs;                            *)
(*   "B"  ... then SAVEPOINT sp, then only transactional verbs;            *)
(*   "R"  ... then ROLLBACK TO sp;                                         *)
(*   "X"  BEGIN followed by verbs and savepoint calls in any other order;  *)
(*   "rb" one of the above, then ROLLBACK;   "cm"  R, then COMMIT;         *)
(*   "none" otherwise.  tables/files are those at BEGIN, opsA the buffer   *)
(*   at SAVEPOINT sp.                                                      *)
(***************************************************************************)
InTx == scen.phase \in {"A", "B", "R", "X"}

OffPattern == [scen EXCEPT !.phase = "X", !.opsA = <<>>, !.sp = ""]

Track(call, sp) ==
    scen' =
        CASE call = "Begin" ->
                [phase |-> "A", owner |-> 0, issuer |-> 0, tables |-> tables, files |-> files,
                 opsA |-> <<>>, sp |-> ""]
          [] call = "Verb" ->
                IF scen.phase \in {"A", "B"} THEN scen
                ELSE IF InTx THEN OffPattern ELSE NoScen
          [] call = "Savepoint" ->
                IF scen.phase = "A"
                THEN [scen EXCEPT !.phase = "B", !.opsA = CurrentOps, !.sp = sp]
                ELSE IF InTx THEN OffPattern ELSE NoScen
          [] call = "RollbackTo" ->
                IF scen.phase = "B" /\ scen.sp = sp THEN [scen EXCEPT !.phase = "R"]
                ELSE IF InTx THEN OffPattern ELSE NoScen
          [] call = "Rollback" ->
                IF InTx THEN [scen EXCEPT !.phase = "rb", !.opsA = <<>>, !.sp = ""] ELSE NoScen
          [] call = "Commit" ->
                IF scen.phase = "R" THEN [scen EXCEPT !.phase = "cm"] ELSE NoScen
          [] OTHER -> NoScen

(***************************************************************************)
(* Specifications                                                          *)
(***************************************************************************)
\* the statements Engine.Execute turns into calls of the transaction-aware verbs
Verbs ==
    \/ \E n \in NameInputs, c \in ColumnInputs : CreateTableTx(n, c) /\ Track("Verb", "")
    \/ \E n \in NameInputs, v \in RowInputs : InsertTx(n, v) /\ Track("Verb", "")
    \/ \E n \in NameInputs, i \in IndexInputs, v \in RowInputs :
          UpdateTx(n, i, v) /\ Track("Verb", "")
    \/ \E n \in NameInputs, i \in IndexInputs : DeleteTx(n, i) /\ Track("Verb", "")
    \/ \E n \in NameInputs : DropTableTx(n) /\ Track("Verb", "")

\* the engine with transactions, savepoints and restarts
Next ==
    \/ Verbs
    \/ \E l \in IsolationInputs : BeginTransaction(l) /\ Track("Begin", "")
    \/ CommitTransaction /\ Track("Commit", "")
    \/ RollbackTransaction /\ Track("Rollback", "")
    \/ \E s \in SavepointInputs : CreateSavepoint(s) /\ Track("Savepoint", s)
    \/ \E s \in SavepointInputs : RollbackToSavepoint(s) /\ Track("RollbackTo", s)
    \/ NewDatabase /\ Track("NewDatabase", "")

Spec == Init /\ [][Next]_vars

\* the step leaves a short log: at most two mutations, or one transaction
\* with a savepoint, a rollback to it and its end
Short == Len(wal') <= 2 * MaxOps

\* the transaction calls, on the Database and on the manager, with the calls
\* that have nothing to act on: no current transaction, an ID the manager does
\* not hold, a savepoint name never given to CreateSavepoint
NextRefuse ==
    \/ \E n \in NameInputs, c \in ColumnInputs : CreateTableTx(n, c) /\ Short /\ UNCHANGED scen
    \/ \E n \in NameInputs, v \in RowInputs : InsertTx(n, v) /\ Short /\ UNCHANGED scen
    \/ \E l \in IsolationInputs : BeginTransaction(l) /\ Short /\ UNCHANGED scen
    \/ CommitTransaction /\ Short /\ UNCHANGED scen
    \/ RollbackTransaction /\ Short /\ UNCHANGED scen
    \/ \E s \in SavepointInputs : CreateSavepoint(s) /\ Short /\ UNCHANGED scen
    \/ \E s \in SavepointInputs \cup {UnknownSavepoint} :
          RollbackToSavepoint(s) /\ Short /\ UNCHANGED scen
    \/ \E op \in {"CommitTransaction", "RollbackTransaction", "CreateSavepoint",
                  "RollbackToSavepoint"} : NoTransaction(op) /\ Short /\ UNCHANGED scen
    \/ \E id \in TxIDInputs : ManagerCommit(id) /\ Short /\ UNCHANGED scen
    \/ \E id \in TxIDInputs : ManagerRollback(id) /\ Short /\ UNCHANGED scen

SpecRefuse == Init /\ [][NextRefuse]_vars

\* BEGIN and COMMIT in any order, around statements that COMMIT can apply
NextBegin ==
    \/ \E n \in NameInputs, c \in ColumnInputs : CreateTableTx(n, c) /\ UNCHANGED scen
    \/ \E n \in NameInputs, v \in RowInputs : InsertTx(n, v) /\ UNCHANGED scen
    \/ \E n \in NameInputs, i \in IndexInputs, v \in RowInputs :
          UpdateTx(n, i, v) /\ UNCHANGED scen
    \/ \E l \in IsolationInputs : BeginTransaction(l) /\ UNCHANGED scen
    \/ CommitTransaction /\ UNCHANGED scen
    \/ NoTransaction("CommitTransaction") /\ UNCHANGED scen

SpecBegin == Init /\ [][NextBegin]_vars

\* transactions begun at each of the four isolation levels
NextLevels ==
    \/ \E n \in NameInputs, c \in ColumnInputs : CreateTableTx(n, c) /\ Short /\ UNCHANGED scen
    \/ \E n \in NameInputs, v \in RowInputs : InsertTx(n, v) /\ Short /\ UNCHANGED scen
    \/ \E l \in LevelInputs : BeginTransaction(l) /\ Short /\ UNCHANGED scen
    \/ CommitTransaction /\ Short /\ UNCHANGED scen
    \/ RollbackTransaction /\ Short /\ UNCHANGED scen
    \/ \E s \in SavepointInputs : CreateSavepoint(s) /\ Short /\ UNCHANGED scen
    \/ \E s \in SavepointInputs : RollbackToSavepoint(s) /\ Short /\ UNCHANGED scen

SpecLevels == Init /\ [][NextLevels]_vars

\* BEGIN statements as the engine receives them
NextStatement ==
    \/ \E n \in NameInputs, c \in ColumnInputs : CreateTableTx(n, c) /\ Short /\ UNCHANGED scen
    \/ \E n \in NameInputs, v \in RowInputs : InsertTx(n, v) /\ Short /\ UNCHANGED scen
    \/ \E parts \in BeginInputs : handleBeginTransaction(parts) /\ Short /\ UNCHANGED scen
    \/ CommitTransaction /\ Short /\ UNCHANGED scen
    \/ RollbackTransaction /\ Short /\ UNCHANGED scen

SpecStatement == Init /\ [][NextStatement]_vars

\* tables filled by the direct verbs and queried with WHERE clauses
NextWhere ==
    \/ \E n \in NameInputs, c \in ColumnInputs :
          CreateTable(n, c) /\ UNCHANGED scen
    \/ \E n \in NameInputs, v \in RowInputs : Insert(n, v) /\ UNCHANGED scen
    \/ \E n \in NameInputs, k \in DOMAIN WhereTokens : SelectStatement(n, k) /\ UNCHANGED scen

SpecWhere == Init /\ [][NextWhere]_vars

\* the call was issued by connection c: scen keeps the issuer of the call and
\* the owner of the current transaction, the connection whose BEGIN made it
By(c) ==
    scen' = [NoScen EXCEPT
                !.issuer = c,
                !.owner = IF last'.op = "BeginTransaction" /\ last'.res = "" THEN c
                          ELSE IF currentTransaction' = 0 THEN 0
                          ELSE scen.owner]

\* statements arriving on several connections, one at a time
NextConn ==
    \/ \E c \in ConnInputs, n \in NameInputs, cols \in ColumnInputs :
          CreateTableTx(n, cols) /\ By(c)
    \/ \E c \in ConnInputs, n \in NameInputs, v \in RowInputs : InsertTx(n, v) /\ By(c)
    \/ \E c \in ConnInputs, l \in IsolationInputs : BeginTransaction(l) /\ By(c)
    \/ \E c \in ConnInputs : CommitTransaction /\ By(c)
    \/ \E c \in ConnInputs : RollbackTransaction /\ By(c)

SpecConn == Init /\ [][NextConn]_vars

\* two connections inserting at the same time, each goroutine at its own pace
NextRace ==
    \/ \E n \in NameInputs, cols \in ColumnInputs : CreateTable(n, cols) /\ UNCHANGED scen
    \/ \E c \in ConnInputs, n \in NameInputs, v \in RowInputs :
          InsertLog(c, n, v) /\ UNCHANGED <<conns, scen>>
    \/ \E c \in ConnInputs : InsertRead(c) /\ UNCHANGED <<conns, scen>>
    \/ \E c \in ConnInputs : InsertApply(c) /\ UNCHANGED <<conns, scen>>

SpecRace == Init /\ [][NextRace]_vars

\* one transaction with two savepoint names, created and rolled back to in
\* any order
NextSavepoint ==
    \/ \E n \in NameInputs, c \in ColumnInputs :
          CreateTableTx(n, c) /\ Len(wal') <= MaxWal /\ UNCHANGED scen
    \/ \E n \in NameInputs, v \in RowInputs :
          InsertTx(n, v) /\ Len(wal') <= MaxWal /\ UNCHANGED scen
    \/ \E l \in IsolationInputs : BeginTransaction(l) /\ nextID = 1 /\ UNCHANGED scen
    \/ \E s \in SavepointInputs \cup {UnknownSavepoint} : CreateSavepoint(s) /\ UNCHANGED scen
    \/ \E s \in SavepointInputs \cup {UnknownSavepoint} :
          RollbackToSavepoint(s) /\ UNCHANGED scen

SpecSavepoint == Init /\ [][NextSavepoint]_vars

\* the step leaves a short log, at most two rows in a table and at most
\* MaxTx transactions begun since the database was opened
Small ==
    /\ Short
    /\ nextID' <= MaxTx + 1
    /\ \A t \in DOMAIN tables' : Len(tables'[t].Rows) <= MaxOps

\* mutations, committed transactions and truncations of the log, between
\* restarts of the database
NextReopen ==
    \/ \E c \in ColumnInputs : CreateTableTx("t1", c) /\ Small /\ UNCHANGED scen
    \/ \E v \in RowInputs : InsertTx("t1", v) /\ Small /\ UNCHANGED scen
    \/ \E i \in IndexInputs, v \in RowInputs : UpdateTx("t1", i, v) /\ Small /\ UNCHANGED scen
    \/ \E l \in IsolationInputs : BeginTransaction(l) /\ Small /\ UNCHANGED scen
    \/ CommitTransaction /\ Small /\ UNCHANGED scen
    \/ TruncateWAL /\ Small /\ UNCHANGED scen
    \/ NewDatabase /\ Small /\ UNCHANGED scen

SpecReopen == Init /\ [][NextReopen]_vars

\* transactions on a database whose WAL file can stop taking writes, at a
\* restart or while the database is open
NextWalDown ==
    \/ \E n \in NameInputs, c \in ColumnInputs :
          CreateTable(n, c) /\ Len(wal') <= MaxWal /\ UNCHANGED scen
    \/ \E n \in NameInputs, v \in RowInputs \cup LongRowInputs :
          Insert(n, v) /\ Len(wal') <= MaxWal /\ UNCHANGED scen
    \/ NewDatabase /\ UNCHANGED scen
    \/ \E l \in IsolationInputs : BeginTransaction(l) /\ UNCHANGED scen
    \/ CommitTransaction /\ UNCHANGED scen
    \/ RollbackTransaction /\ UNCHANGED scen
    \/ \E s \in SavepointInputs : CreateSavepoint(s) /\ UNCHANGED scen
    \/ \E s \in SavepointInputs : RollbackToSavepoint(s) /\ UNCHANGED scen
    \/ WalFault /\ UNCHANGED scen

SpecWalDown == Init /\ [][NextWalDown]_vars

\* statements sent to the server, each run in its own goroutine, with the
\* per-statement timeout
NextServer ==
    \/ \E n \in NameInputs, cols \in ColumnInputs : CreateTable(n, cols) /\ UNCHANGED scen
    \/ \E c \in ConnInputs, n \in NameInputs, v \in RowInputs :
          Submit(c, n, v) /\ UNCHANGED scen
    \/ \E c \in ConnInputs : Proceed(c) /\ UNCHANGED scen
    \/ \E c \in ConnInputs : Deliver(c) /\ UNCHANGED scen
    \/ \E c \in ConnInputs : Timeout(c) /\ UNCHANGED scen
    \/ \E c \in ConnInputs : Exit(c) /\ UNCHANGED scen

SpecServer == Init /\ [][NextServer]_vars

\* the non-transactional verbs alone, each running to its return, and restarts
NextNonTx ==
    \/ \E n \in NameInputs, c \in ColumnInputs : CreateTable(n, c) /\ UNCHANGED scen
    \/ \E n \in NameInputs, v \in RowInputs \cup LongRowInputs :
          Insert(n, v) /\ UNCHANGED scen
    \/ \E n \in NameInputs, i \in IndexInputs, v \in RowInputs \cup LongRowInputs :
          Update(n, i, v) /\ UNCHANGED scen
    \/ \E n \in NameInputs, i \in IndexInputs : Delete(n, i) /\ UNCHANGED scen
    \/ \E n \in NameInputs : DropTable(n) /\ UNCHANGED scen
    \/ \E n \in NameInputs, c \in IndexColumnInputs : CreateIndex(n, c) /\ UNCHANGED scen
    \/ NewDatabase /\ UNCHANGED scen

SpecNonTx == Init /\ [][NextNonTx]_vars

\* the non-transactional verbs, accepted or rejected, with CREATE INDEX and the
\* two ways to query with an equality: SELECT ... WHERE through the engine,
\* SelectWhere on the Database
NextQuery ==
    \/ \E n \in NameInputs, c \in ColumnInputs :
          CreateTable(n, c) /\ Len(wal') <= MaxWal /\ UNCHANGED scen
    \/ \E n \in NameInputs, v \in RowInputs :
          Insert(n, v) /\ Len(wal') <= MaxWal /\ UNCHANGED scen
    \/ \E n \in NameInputs, i \in IndexInputs, v \in RowInputs :
          Update(n, i, v) /\ Len(wal') <= MaxWal /\ UNCHANGED scen
    \/ \E n \in NameInputs, i \in IndexInputs :
          Delete(n, i) /\ Len(wal') <= MaxWal /\ UNCHANGED scen
    \/ \E n \in NameInputs : DropTable(n) /\ Len(wal') <= MaxWal /\ UNCHANGED scen
    \/ \E n \in NameInputs, c \in IndexColumnInputs : CreateIndex(n, c) /\ UNCHANGED scen
    \/ \E c \in AllCalls : Reject(c) /\ UNCHANGED scen
    \/ \E n \in NameInputs, w \in WhereInputs : Select(n, w) /\ UNCHANGED scen
    \/ \E n \in NameInputs, c \in IndexColumnInputs, v \in ValueInputs :
          SelectWhere(n, c, v) /\ UNCHANGED scen

SpecQuery == Init /\ [][NextQuery]_vars

\* the engine with transactions, process stops inside a mutation, and restarts
NextCrash ==
    \/ Verbs
    \/ \E l \in IsolationInputs : BeginTransaction(l) /\ Track("Begin", "")
    \/ CommitTransaction /\ Track("Commit", "")
    \/ \E c \in Calls, stop \in {"afterWAL", "afterSave"} : Crash(c, stop) /\ Track("Crash", "")
    \/ \E c \in Calls, kind \in {"length", "prefix", "payload"} :
          Tear(c, kind) /\ Track("Tear", "")
    \/ NewDatabase /\ Track("NewDatabase", "")

SpecCrash == Init /\ [][NextCrash]_vars

\* the engine with indexes, committed transactions and restarts
NextIndex ==
    \/ Verbs
    \/ \E n \in NameInputs, c \in IndexColumnInputs :
          CreateIndex(n, c) /\ Track("CreateIndex", "")
    \/ \E l \in IsolationInputs : BeginTransaction(l) /\ Track("Begin", "")
    \/ CommitTransaction /\ Track("Commit", "")
    \/ NewDatabase /\ Track("NewDatabase", "")
    \/ \E n \in NameInputs, c \in IndexColumnInputs, v \in ValueInputs :
          SelectWhere(n, c, v) /\ UNCHANGED scen

SpecIndex == Init /\ [][NextIndex]_vars

(***************************************************************************)
(* Serial application: the buffered operations run one by one, in buffer   *)
(* order, through the non-transactional operations                         *)
(***************************************************************************)
\* the non-transactional call that op stands for
SerialOne(db, op) ==
    LET d == op.Data
    IN  CASE op.Type = WAL_CREATE_TABLE ->
                CreateTableOn(db, op.TableName, d["columns"].val, "none")
          [] op.Type = WAL_INSERT -> InsertOn(db, op.TableName, d["values"].val, "none")
          [] op.Type = WAL_UPDATE ->
                UpdateOn(db, op.TableName, d["row_index"].val, d["values"].val, "none")
          [] op.Type = WAL_DELETE -> DeleteOn(db, op.TableName, d["row_index"].val, "none")
          [] op.Type = WAL_DROP_TABLE -> DropTableOn(db, op.TableName, "none")

\* ops[k..] applied to db; ok is FALSE when one of the calls rejects its arguments
RECURSIVE SerialFrom(_, _, _)
SerialFrom(db, ops, k) ==
    IF k > Len(ops) THEN [tables |-> db.tables, files |-> db.files, wal |-> db.wal, ok |-> TRUE]
    ELSE LET r == SerialOne(db, ops[k])
         IN  IF r.res \in Rejections
             THEN [tables |-> db.tables, files |-> db.files, wal |-> db.wal, ok |-> FALSE]
             ELSE SerialFrom([tables |-> r.tables, files |-> r.files, wal |-> r.wal,
                              open |-> db.open], ops, k + 1)

Serial(db, ops) == SerialFrom(db, ops, 1)

\* the step is a call of CommitTransaction on an active, registered transaction
CommitStep ==
    /\ up /\ ~hung
    /\ currentTransaction # 0
    /\ currentTransaction \in transactions
    /\ txObj[currentTransaction].State = TransactionActive
    /\ last'.op = "CommitTransaction"
    /\ last' # last

\* the transaction most recently begun by this instance
LatestTx == nextID - 1

(***************************************************************************)
(* Properties                                                              *)
(***************************************************************************)
\* C1: after BeginTransaction, any calls of the transactional verbs (and of
\* the savepoint calls) and then RollbackTransaction, the rollback returned no
\* error and the tables, in memory and on disk, are those that existed
\* immediately before BeginTransaction: nothing queued was applied.
C1_RollbackRestores ==
    scen.phase = "rb" =>
        /\ last.op = "RollbackTransaction"
        /\ last.res = ""
        /\ tables = scen.tables
        /\ files = scen.files
        /\ currentTransaction = 0

\* a transaction with two queued operations on an existing table was rolled back
C1_Witness ==
    /\ scen.phase = "rb"
    /\ LatestTx \in DOMAIN txObj
    /\ txObj[LatestTx].State = TransactionRolledBack
    /\ txObj[LatestTx].Operations.len = MaxOps
    /\ \E n \in DOMAIN tables : tables[n].Rows # <<>>

\* C2: when the buffer of the active transaction holds operations queued by
\* the transactional verbs that are each valid when applied in buffer order,
\* CommitTransaction returns no error, leaves the tables that applying the same
\* operations one by one with the non-transactional operations leaves, and
\* removes the transaction from the manager.
C2_CommitEqualsSerial ==
    [][(CommitStep /\ Serial(DB, CurrentOps).ok) =>
          /\ last'.res = ""
          /\ View(tables') = View(Serial(DB, CurrentOps).tables)
          /\ currentTransaction \notin transactions']_vars

\* C3: after BeginTransaction; opsA; CreateSavepoint(s); opsB;
\* RollbackToSavepoint(s); CommitTransaction the commit has succeeded and the
\* tables are those that applying exactly opsA, in order, to the tables that
\* existed before BeginTransaction leaves.
C3_SavepointCommitsOpsA ==
    scen.phase = "cm" =>
        /\ last.res = ""
        /\ View(tables) =
               View(Serial([tables |-> scen.tables, files |-> scen.files, wal |-> <<>>,
                            open |-> TRUE], scen.opsA).tables)

\* C4: CommitTransaction always returns; when a buffered operation failed to
\* apply it returned an error naming that operation, and the transaction is
\* marked RolledBack and no longer registered.
C4_CommitReturns ==
    last.op = "CommitTransaction" =>
        /\ ~hung
        /\ last.res # "" =>
               /\ txObj[LatestTx].State = TransactionRolledBack
               /\ LatestTx \notin transactions

\* C5: a commit is all-or-nothing: a CommitTransaction that does not succeed
\* leaves every table, in memory and on disk, as it was before the call; one
\* that succeeds has applied every buffered operation.
C5_CommitAllOrNothing ==
    [][CommitStep =>
          /\ last'.res # "" => (tables' = tables /\ files' = files)
          /\ last'.res = "" => last'.n = Len(CurrentOps)]_vars

\* C6: when CommitTransaction has returned success and the data directory is
\* opened again (table files loaded, WAL replayed), every table exists with the
\* columns and the row sequence it had right after the commit.
C6_CommitSurvivesRestart ==
    [][(last.op = "CommitTransaction" /\ last.res = "" /\ last'.op = "NewDatabase") =>
          View(tables') = View(tables)]_vars

\* C7: after any sequence of non-transactional CreateTable / Insert / Update /
\* Delete / DropTable calls that ran to their CHECKPOINT, opening the data
\* directory again yields the same tables with the same columns and the same
\* row sequences as before the restart.
C7_RestartKeepsTables ==
    (last.op = "NewDatabase" /\ last.res = "reopened") => View(tables) = last.expect

\* C8: when CreateIndex has succeeded and the data directory is opened again,
\* every table is reloaded with the same columns, rows and indexed_columns, and
\* with an index for each indexed column.
C8_IndexSurvivesRestart ==
    [][(last.op = "CreateIndex" /\ last'.op = "NewDatabase") =>
          \A n \in DOMAIN tables :
              /\ n \in DOMAIN tables'
              /\ tables'[n].Columns = tables[n].Columns
              /\ tables'[n].Rows = tables[n].Rows
              /\ tables'[n].IndexedColumns = tables[n].IndexedColumns
              /\ \A i \in 1..Len(tables[n].IndexedColumns) :
                     tables[n].IndexedColumns[i] \in DOMAIN tables'[n].Indexes]_vars

\* C9: when the process stopped inside a non-transactional mutation after its
\* WAL record was synced (before the table file was renamed, or after it and
\* before the CHECKPOINT), the restarted database holds the tables the call
\* would have left had it completed: the mutation is there exactly once.
C9_StopInsideMutation ==
    (last.op = "NewDatabase" /\ last.res = "recovered") => View(tables) = last.expect

\* the rows and columns the table files hold
FileView(fs) == [f \in DOMAIN fs |-> [Columns |-> fs[f].columns, Rows |-> fs[f].rows]]

\* C10: log before data: every call that changes a row or a table, in memory or
\* in a table file, has appended WAL records that describe the change (replaying
\* them on the tables before the call gives the tables after it).
C10_LogBeforeData ==
    [][(/\ up /\ up'
        /\ last'.op # "NewDatabase"
        /\ (View(tables') # View(tables) \/ FileView(files') # FileView(files))) =>
          /\ Len(wal') > Len(wal)
          /\ SubSeq(wal', 1, Len(wal)) = wal
          /\ View(ReplayFrom([tables |-> tables, files |-> files], wal', Len(wal) + 1).tables)
                 = View(tables')]_vars

\* the records of w that follow its last CHECKPOINT record
AfterCheckpoint(w) ==
    LET cps == {k \in 1..Len(w) : w[k].Type = WAL_CHECKPOINT}
    IN  IF cps = {} THEN w
        ELSE SubSeq(w, (CHOOSE k \in cps : \A j \in cps : j <= k) + 1, Len(w))

\* C11: at startup the WAL records that precede the last CHECKPOINT are skipped:
\* the tables after NewDatabase are the loaded tables with only the records
\* after the last CHECKPOINT applied.
C11_ReplaySkipsCheckpointed ==
    [][last'.op = "NewDatabase" =>
          tables' = ReplayFrom([tables |-> loadTables(files), files |-> files],
                               AfterCheckpoint(wal), 1).tables]_vars

\* C12: when the WAL ends with a torn record, startup replays the complete
\* records before it (the tables are those before the interrupted call), ends
\* the replay without error, and every mutation that passes validation is then
\* logged and applied.
C12_TornTailTolerated ==
    (last.op = "NewDatabase" /\ last.res = "torn") =>
        /\ View(tables) = last.expect
        /\ walOpen
        /\ \A c \in Calls :
               LET r == RunOn(DB, c, "none")
               IN  r.res \notin Rejections =>
                       (Len(r.wal) > Len(wal) /\ View(r.tables) # View(tables))

\* the index of column c of table t maps each value to exactly the positions of
\* the rows that hold it in column c, each position once
IndexExact(t, c) ==
    LET ci == ColIdx(t.Columns, c)
    IN  /\ ci # -1
        /\ c \in DOMAIN t.Indexes
        /\ \A p \in 1..Len(t.Rows) : t.Rows[p][ci + 1] \in DOMAIN t.Indexes[c]
        /\ \A v \in DOMAIN t.Indexes[c] :
               LET bucket == t.Indexes[c][v]
               IN  /\ {bucket[k] : k \in 1..Len(bucket)} =
                          {p - 1 : p \in {q \in 1..Len(t.Rows) : t.Rows[q][ci + 1] = v}}
                   /\ \A j, k \in 1..Len(bucket) : bucket[j] = bucket[k] => j = k

\* C13: for every table and every column c of its indexed_columns, c is a
\* column of the table and the index of c maps each value to exactly the
\* positions of the rows holding it: every row position is in exactly one
\* bucket and no bucket holds a stale or out-of-range position.
C13_IndexesExact ==
    \A n \in DOMAIN tables :
        \A i \in 1..Len(tables[n].IndexedColumns) :
            IndexExact(tables[n], tables[n].IndexedColumns[i])

\* a committed transaction has updated the row of an indexed table
C13_Witness ==
    /\ last.op = "CommitTransaction"
    /\ last.res = ""
    /\ last.n > 0
    /\ \E n \in DOMAIN tables :
           /\ tables[n].IndexedColumns # <<>>
           /\ tables[n].Rows # <<>>

\* the database with the same tables and no index on any column
Unindexed(db) ==
    [db EXCEPT !.tables = [n \in DOMAIN db.tables |->
                              [db.tables[n] EXCEPT !.IndexedColumns = <<>>,
                                                   !.Indexes = EmptyMap]]]

\* the columns of table n
ColumnsOf(n) == {tables[n].Columns[i] : i \in 1..Len(tables[n].Columns)}

\* C14: in every reachable state, for every table, every existing column and
\* every value, SelectWhere returns the same header and the same rows in the
\* same order as it returns on the same table without any index, and the
\* output handed to a caller is the output of the full scan.
C14_IndexedEqualsScan ==
    /\ \A n \in DOMAIN tables : \A c \in ColumnsOf(n) : \A v \in ValueInputs \cup {LongValue} :
           SelectWhereOn(DB, n, c, v) = SelectWhereOn(Unindexed(DB), n, c, v)
    /\ last.op = "SelectWhere" =>
           \E n \in NameInputs, c \in IndexColumnInputs, v \in ValueInputs :
               last.out = SelectWhereOn(Unindexed(DB), n, c, v)

\* an indexed lookup has returned a row of a table with two rows
C14_Witness ==
    /\ last.op = "SelectWhere"
    /\ Len(last.out.lines) = 2 /\ last.out.lines[2] # NoRows
    /\ \E n \in DOMAIN tables :
           /\ Len(tables[n].Rows) = 2
           /\ \E c \in DOMAIN tables[n].Indexes, v \in ValueInputs :
                  last.out = SelectWhereOn(DB, n, c, v)

\* whereExpr is a single equality on a column of table name that has an index
IndexedEquality(name, whereExpr) ==
    /\ Len(whereExpr.Conditions) = 1
    /\ whereExpr.Conditions[1].Operator = OpEquals
    /\ ToLower(name) \in DOMAIN tables
    /\ whereExpr.Conditions[1].Column \in DOMAIN tables[ToLower(name)].Indexes

\* C15: a SELECT whose WHERE clause is a single equality on an indexed column
\* is served by SelectWhere (the hash index) and not by the general
\* evaluator; every other WHERE clause is served by the full scan of
\* SelectWhereAdvanced.
C15_EqualityServedFromIndex ==
    [][\A n \in NameInputs, w \in WhereInputs :
          Select(n, w) =>
              IF IndexedEquality(n, w)
              THEN /\ last'.via = "SelectWhere"
                   /\ last'.out = SelectWhereOn(DB, n, w.Conditions[1].Column,
                                                w.Conditions[1].Value)
              ELSE /\ last'.via = "SelectWhereAdvanced"
                   /\ last'.out = SelectWhereAdvancedOn(DB, n, w)]_vars

\* the call c is one the operation has to reject in the current state: a
\* missing table, an existing name for CreateTable, a value count different
\* from the column count, a row index outside [0, rowCount)
Invalid(c) ==
    LET name == ToLower(c.name)
        known == name \in DOMAIN tables
    IN  CASE c.verb = "CreateTable" -> known
          [] c.verb = "Insert" ->
                ~known \/ Len(c.values) # Len(tables[name].Columns)
          [] c.verb = "Update" ->
                \/ ~known
                \/ Len(c.values) # Len(tables[name].Columns)
                \/ c.rowIndex < 0 \/ c.rowIndex >= Len(tables[name].Rows)
          [] c.verb = "Delete" ->
                ~known \/ c.rowIndex < 0 \/ c.rowIndex >= Len(tables[name].Rows)
          [] c.verb = "DropTable" -> ~known

\* C16: in every reachable state, a non-transactional mutation that has to
\* be rejected returns one of the error strings, only such a call returns
\* one, and the call that returns one leaves the WAL, every in-memory table
\* and every table file as they were.
C16_RejectionChangesNothing ==
    \A c \in AllCalls :
        LET r == RunOn(DB, c, "none")
        IN  /\ Invalid(c) <=> r.res \in Rejections
            /\ r.res \in Rejections =>
                   r.tables = tables /\ r.files = files /\ r.wal = wal

\* an Update with the row index equal to the row count has been rejected on a
\* table that has rows
C16_Witness ==
    /\ last.op = "Update" /\ last.res = "Row index out of bounds"
    /\ \E n \in DOMAIN tables : Len(tables[n].Rows) = 1 /\ tables[n].IndexedColumns # <<>>

\* the manager holds no active transaction under the ID: it was never issued,
\* or the transaction has been committed or rolled back
NotActive(id) == id \notin transactions \/ txObj[id].State # TransactionActive

\* the name was given to no CreateSavepoint call of the current transaction
NeverCreated(s) ==
    /\ currentTransaction \in transactions
    /\ txObj[currentTransaction].State = TransactionActive
    /\ s \notin DOMAIN txObj[currentTransaction].Savepoints

\* C17: CommitTransaction, RollbackTransaction, CreateSavepoint and
\* RollbackToSavepoint without a current transaction, the manager's
\* CommitTransaction and RollbackTransaction on an ID that is unknown or
\* already terminated, and RollbackToSavepoint on a name never created,
\* return an error and change no table and no transaction's state, buffer or
\* savepoints.
C17_RefusedCallChangesNothing ==
    [][LET refused == /\ last'.res # ""
                      /\ UNCHANGED <<tables, files, txObj, transactions, currentTransaction>>
       IN  /\ (/\ currentTransaction = 0
               /\ last'.op \in {"CommitTransaction", "RollbackTransaction",
                                "CreateSavepoint", "RollbackToSavepoint"}) => refused
           /\ \A id \in TxIDInputs :
                  (NotActive(id) /\ (ManagerCommit(id) \/ ManagerRollback(id))) => refused
           /\ \A s \in SavepointInputs \cup {UnknownSavepoint} :
                  (NeverCreated(s) /\ RollbackToSavepoint(s)) => refused]_vars

\* the manager has refused to commit an ID while it holds an active
\* transaction with a buffered operation and has committed another one
C17_Witness ==
    /\ last.op = "TransactionManager.CommitTransaction"
    /\ last.res = "transaction %s not found"
    /\ \E id \in DOMAIN txObj : txObj[id].State = TransactionCommitted
    /\ \E id \in transactions : txObj[id].Operations.len > 0

\* the rows table name has for the statements of the current transaction after
\* its first k buffered operations: the live rows and the rows of the
\* buffered inserts (no rows for a table the transaction creates)
RowsSeen(name, k) ==
    Len(IF name \in DOMAIN tables THEN tables[name].Rows ELSE <<>>)
        + Cardinality({j \in 1..k : /\ CurrentOps[j].Type = WAL_INSERT
                                    /\ CurrentOps[j].TableName = name})

\* C18: inside a transaction whose buffer holds only creations and inserts, an
\* INSERT into a table the transaction has created, with as many values as
\* the table has columns, is accepted, and so is an UPDATE or a DELETE of a
\* row the transaction has inserted.
C18_BuildsOnEarlierStatement ==
    (/\ up /\ ~hung
     /\ currentTransaction \in transactions
     /\ txObj[currentTransaction].State = TransactionActive
     /\ \A k \in 1..Len(CurrentOps) : CurrentOps[k].Type \in {WAL_CREATE_TABLE, WAL_INSERT})
    => \A k \in 1..Len(CurrentOps) :
          LET op == CurrentOps[k]
          IN  /\ op.Type = WAL_CREATE_TABLE =>
                     \A v \in RowInputs :
                         Len(v) = Len(op.Data.columns.val) =>
                             InsertTxCheck(tables, op.TableName, v) = ""
              /\ op.Type = WAL_INSERT =>
                     LET i == RowsSeen(op.TableName, k) - 1
                     IN  /\ UpdateTxCheck(tables, op.TableName, i, op.Data.values.val) = ""
                         /\ DeleteTxCheck(tables, op.TableName, i) = ""

\* the transactions begun and not yet committed or rolled back
ActiveTxs == {id \in transactions : txObj[id].State = TransactionActive}

\* every operation buffered in an active transaction is an UPDATE of a row
\* that exists, with as many values as the table has columns
OnlyValidUpdates ==
    \A id \in ActiveTxs : \A k \in 1..txObj[id].Operations.len :
        LET op == Elems(txObj[id].Operations)[k]
        IN  /\ op.Type = WAL_UPDATE
            /\ UpdateTxCheck(tables, op.TableName, op.Data.row_index.val,
                             op.Data.values.val) = ""

\* C19: while a transaction that was begun is still uncommitted, a
\* CommitTransaction call returns no error, also when another transaction
\* was begun in between; and once CommitTransaction has left no current
\* transaction, no begun transaction is left with operations not applied.
C19_SecondBeginLosesNothing ==
    [][(last'.op = "CommitTransaction" /\ ActiveTxs # {} /\ OnlyValidUpdates) =>
           /\ last'.res = ""
           /\ currentTransaction' = 0 =>
                  \A id \in transactions' :
                      txObj'[id].State = TransactionActive =>
                          txObj'[id].Operations.len = 0]_vars

\* C20: while a connection's transaction is current, a mutating statement
\* issued by another connection is executed at once, outside the transaction
\* (the buffer stays as it is and the statement is logged), and a COMMIT or
\* ROLLBACK issued by another connection leaves the transaction active.
C20_TransactionOfItsConnection ==
    [][(/\ currentTransaction \in ActiveTxs
        /\ scen.owner # 0
        /\ scen'.issuer # scen.owner) =>
           /\ last'.op \in {"CreateTableTx", "InsertTx"} =>
                  /\ txObj' = txObj
                  /\ Len(wal') > Len(wal)
           /\ last'.op \in {"CommitTransaction", "RollbackTransaction"} =>
                  /\ currentTransaction \in transactions'
                  /\ txObj'[currentTransaction].State = TransactionActive]_vars

\* the tables a restart builds from the log alone
FromLog == ReplayFrom([tables |-> EmptyMap, files |-> EmptyMap], wal, 1).tables

\* C21: when no Insert is in progress, every table holds the rows of the
\* INSERT records of the log, all of them and in the order of the records:
\* no insert is lost and the order applied is the order logged.
C21_MutationsTotallyOrdered ==
    (\A c \in ConnInputs : calls[c].pc = "idle") => View(tables) = View(FromLog)

\* C22: under every interleaving of the transaction verbs of the connections
\* no call is left waiting for a lock that is never released: no call has
\* blocked forever on tx.mu or tm.mu.
C22_EveryCallReturns == ~hung

\* the manager with every transaction set to level l
Relevel(m, l) ==
    [m EXCEPT !.objs = [id \in DOMAIN m.objs |-> [m.objs[id] EXCEPT !.IsolationLevel = l]]]

\* the operations COMMIT would apply for txID, and what applying them gives
CommitView(m, txID) ==
    IF txID \notin m.regs \/ m.objs[txID].State # TransactionActive THEN <<>>
    ELSE <<ApplyFrom([tables |-> tables, files |-> files],
                     Elems(m.objs[txID].Operations), 1)>>

\* every manager call gives, at level l, what it gives at the recorded levels
SameAtLevel(l) ==
    LET m == Relevel(TM, l)
    IN  \A id \in TxIDInputs :
          /\ CommitView(m, id) = CommitView(TM, id)
          /\ Relevel(RollbackOn(TM, id), l) = RollbackOn(m, id)
          /\ \A s \in SavepointInputs :
                /\ Relevel(CreateSavepointOn(TM, id, s), l) = CreateSavepointOn(m, id, s)
                /\ Relevel(RollbackToSavepointOn(TM, id, s), l) = RollbackToSavepointOn(m, id, s)
          /\ \A n \in NameInputs, v \in RowInputs :
                LET a == AddOperation(txObj, transactions, id, WAL_INSERT, n,
                                      [values |-> Dyn("[]string", v)])
                    b == AddOperation(m.objs, transactions, id, WAL_INSERT, n,
                                      [values |-> Dyn("[]string", v)])
                IN  Relevel(a, l) = b

\* C23: BeginTransaction accepts each of the four isolation levels and returns
\* an Active transaction that records exactly the level given, in the
\* Transaction and in the begin entry of the WAL; the level has no other
\* effect: commit, rollback, savepoint and queueing calls give the same results
\* and the same tables whatever level the transactions carry
C23_LevelRecordedAndInert ==
    /\ (last.op = "BeginTransaction" /\ last.res = "") =>
          /\ last.n \in LevelInputs
          /\ currentTransaction \in transactions
          /\ txObj[currentTransaction].State = TransactionActive
          /\ txObj[currentTransaction].IsolationLevel = last.n
          /\ wal[Len(wal)] = WALEntry(WAL_BEGIN_TRANSACTION, "",
                                      [isolation_level |-> Dyn("int", last.n)])
    /\ \A l \in LevelInputs : SameAtLevel(l)

\* a second transaction begun Serializable after one of another level committed
C23_Witness ==
    /\ last.op = "BeginTransaction" /\ last.res = "" /\ last.n = Serializable
    /\ txObj[currentTransaction].IsolationLevel = Serializable
    /\ \E id \in DOMAIN txObj :
          txObj[id].IsolationLevel = ReadUncommitted /\ txObj[id].State = TransactionCommitted
    /\ tables # EmptyMap
\* the level a BEGIN statement names after ISOLATION LEVEL: -1 for a name that
\* is none of the four, ReadCommitted when the statement names none
NamedLevel(parts) ==
    LET level == [k \in 1..(Len(parts) - 4) |-> ToUpper(parts[k + 4])]
    IN  IF Len(parts) <= 4 THEN ReadCommitted
        ELSE CASE level = <<"READ", "UNCOMMITTED">> -> ReadUncommitted
               [] level = <<"READ", "COMMITTED">> -> ReadCommitted
               [] level = <<"REPEATABLE", "READ">> -> RepeatableRead
               [] level = <<"SERIALIZABLE">> -> Serializable
               [] OTHER -> -1

\* C24: BEGIN TRANSACTION ISOLATION LEVEL <level> starts a transaction whose
\* recorded level is the one named, for each of the four levels; a statement
\* naming any other level is rejected with "Invalid isolation level" and
\* starts no transaction
C24_StatementLevel ==
    [][\A parts \in BeginInputs :
          handleBeginTransaction(parts) =>
             IF NamedLevel(parts) = -1
             THEN last'.res = "Invalid isolation level" /\ UNCHANGED <<txVars, wal>>
             ELSE (last'.res = "") =>
                     txObj'[currentTransaction'].IsolationLevel = NamedLevel(parts)]_vars
\* the mutating calls the engine makes on the Database
MutatingCalls == {"CreateTableTx", "InsertTx", "UpdateTx", "DeleteTx", "DropTableTx", "CreateIndex"}

\* C25: while a transaction is active, every mutating engine call (create
\* table, insert, update, delete, drop table, create index) leaves the
\* in-memory tables and the table files unchanged, so that queries keep
\* returning the state of the last committed or non-transactional mutation
C25_ActiveTransactionBuffers ==
    [][(currentTransaction # 0 /\ last'.op \in MutatingCalls) =>
          UNCHANGED <<tables, files>>]_vars

\* the same for the five calls that go through the transaction
C25_TxVerbsBuffer ==
    [][(currentTransaction # 0 /\ last'.op \in MutatingCalls \ {"CreateIndex"}) =>
          UNCHANGED <<tables, files>>]_vars
\* C26: in every reachable state, after any sequence of non-transactional
\* operations, committed transactions and restarts with WAL replay, every row
\* of every table has exactly as many values as the table has columns
C26_RowArity ==
    \A n \in DOMAIN tables :
       \A i \in 1..Len(tables[n].Rows) : Len(tables[n].Rows[i]) = Len(tables[n].Columns)

\* a restart that replayed a log with a transaction in it into a table of
\* two columns that has a row
C26_Witness ==
    /\ last.op = "NewDatabase"
    /\ \E k \in 1..Len(wal) : wal[k].Type = WAL_BEGIN_TRANSACTION
    /\ \E n \in DOMAIN tables : Len(tables[n].Columns) = 2 /\ Len(tables[n].Rows) >= 1
\* the files saveTable leaves for the tables ts: one per table
FilesOf(ts) == [n \in DOMAIN ts |-> onDiskTable(ts[n])]

\* no call is under way and none has reported a failure to persist
Quiet ==
    /\ up /\ ~hung /\ walOpen
    /\ \A c \in ConnInputs : calls[c].pc = "idle"
    /\ last.res \in {"opened", "", "Table %s created", "1 row inserted", "1 row updated",
                     "1 row deleted", "Table %s dropped", "Index created on %s(%s)"}

\* C27: whenever no operation is in progress and no persistence failure has
\* been reported, the table files correspond one-to-one to the in-memory
\* tables: every table has a file with its name, columns, rows and
\* indexed_columns, and a dropped table has no file
C27_FilesMatchTables == Quiet => files = FilesOf(tables)
\* the tables ts show the mutation c made on the tables before
Shows(ts, before, c) ==
    LET n == ToLower(c.name)
    IN  CASE c.verb = "CreateTable" -> n \in DOMAIN ts /\ n \notin DOMAIN before
          [] c.verb = "Insert" ->
                n \in DOMAIN ts /\ ts[n].Rows = Append(before[n].Rows, c.values)
          [] c.verb = "Update" ->
                n \in DOMAIN ts /\ ts[n].Rows = SetAt(before[n].Rows, c.rowIndex, c.values)
          [] c.verb = "Delete" ->
                n \in DOMAIN ts /\ ts[n].Rows = RemoveAt(before[n].Rows, c.rowIndex)
          [] c.verb = "DropTable" -> n \notin DOMAIN ts

\* C28: whenever a mutating operation returns a result that reports the
\* mutation as done, with or without a persistence warning, the mutation has
\* been applied to the in-memory table
C28_DoneMeansApplied ==
    up => \A c \in Calls :
             LET r == RunOn(DB, c, "none")
             IN  r.res \notin Rejections => Shows(r.tables, tables, c)
\* the clauses of the form  a AND ( b OR c )
Grouped ==
    {k \in DOMAIN WhereTokens :
        /\ Len(WhereTokens[k]) = 13
        /\ WhereTokens[k][4] = "AND" /\ WhereTokens[k][5] = "("
        /\ WhereTokens[k][9] = "OR" /\ WhereTokens[k][13] = ")"}

\* what each condition of we gives on the row
ConditionResults(we, row, columns) ==
    [i \in 1..Len(we.Conditions) |-> EvaluateCondition(we.Conditions[i], row, columns).match]

\* C29: a WHERE expression with parentheses is evaluated with the
\* parenthesized sub-expression as a unit: a AND (b OR c) selects a row if and
\* only if a holds and at least one of b, c holds
C29_ParenthesesGroup ==
    \A n \in DOMAIN tables, k \in Grouped :
       LET p == ParseWhereClause(WhereTokens[k])
           table == tables[n]
       IN  \A i \in 1..Len(table.Rows) :
              LET e == EvaluateExpression(p.expr, table.Rows[i], table.Columns)
                  r == ConditionResults(p.expr, table.Rows[i], table.Columns)
              IN  (p.err = "" /\ e.err = "") => (e.match <=> (r[1] /\ (r[2] \/ r[3])))

\* (((c1 op1 c2) op2 c3) ... cn), from the last operator inwards
RECURSIVE LeftFold(_, _, _)
LeftFold(results, ops, n) ==
    IF n = 1 THEN results[1]
    ELSE IF ops[n - 1] = "AND" THEN LeftFold(results, ops, n - 1) /\ results[n]
    ELSE LeftFold(results, ops, n - 1) \/ results[n]

\* the clause without its parentheses
NoParens(tokens) == SelectSeq(tokens, LAMBDA t : t \notin {"(", ")"})

Balanced(tokens) ==
    LET depth(j) == Cardinality({m \in 1..j : tokens[m] = "("})
                       - Cardinality({m \in 1..j : tokens[m] = ")"})
    IN  depth(Len(tokens)) = 0 /\ \A j \in 1..Len(tokens) : depth(j) >= 0

\* condition (AND|OR condition)*, a condition being column, operator, value
WellFormed(tokens) ==
    LET t == NoParens(tokens)
    IN  /\ Balanced(tokens)
        /\ Len(t) % 4 = 3
        /\ \A j \in 1..Len(t) :
              /\ (j % 4 = 0) <=> (t[j] \in {"AND", "OR"})
              /\ (j % 4 = 2) => t[j] \in {"=", "!=", "<>"}

\* C31: ParseWhereClause returns an error for every token sequence that is
\* not a well-formed expression (empty, incomplete condition, unknown
\* operator, unbalanced parentheses, leading or trailing AND/OR, two logic
\* operators in a row, two conditions with no logic operator between them),
\* and whenever it succeeds the number of logic operators is the number of
\* conditions minus one
C31_IllFormedRejected ==
    last.op = "SelectStatement" =>
       LET tokens == WhereTokens[last.n]
           p == ParseWhereClause(tokens)
       IN  /\ (last.out.err = "WHERE clause error: %v") <=> ~WellFormed(tokens)
           /\ p.err = "" => Len(p.expr.LogicOps) = Len(p.expr.Conditions) - 1
\* C32: Delete(table, i) with 0 <= i < rowCount removes exactly the row at
\* position i: the rows before i keep their positions, the rows after i move
\* down by one in the same order, the row count decreases by one, the table
\* stays present (with zero rows when its only row was deleted), and the table
\* file holds the same rows
C32_DeleteRemovesRowI ==
    up => \A name \in DOMAIN tables :
             \A i \in 0..(Len(tables[name].Rows) - 1) :
                LET r == DeleteOn(DB, name, i, "none")
                    old == tables[name].Rows
                IN  /\ walOpen => r.res = "1 row deleted"
                    /\ r.res = "1 row deleted" =>
                          /\ DOMAIN r.tables = DOMAIN tables
                          /\ \A other \in DOMAIN tables \ {name} :
                                r.tables[other] = tables[other]
                          /\ r.tables[name].Columns = tables[name].Columns
                          /\ Len(r.tables[name].Rows) = Len(old) - 1
                          /\ \A k \in 1..(Len(old) - 1) :
                                r.tables[name].Rows[k] = IF k <= i THEN old[k] ELSE old[k + 1]
                          /\ r.files[name].rows = r.tables[name].Rows

\* a Delete has returned and left a table with two rows of different values
C32_Witness ==
    /\ last.op = "Delete" /\ last.res = "1 row deleted"
    /\ \E name \in DOMAIN tables :
          Len(tables[name].Rows) = 2 /\ tables[name].Rows[1] # tables[name].Rows[2]
\* the WAL record type of each non-transactional mutation
RecordOf(op) ==
    CASE op = "CreateTable" -> WAL_CREATE_TABLE
      [] op = "Insert" -> WAL_INSERT
      [] op = "Update" -> WAL_UPDATE
      [] op = "Delete" -> WAL_DELETE
      [] op = "DropTable" -> WAL_DROP_TABLE

OperationRecords == {WAL_CREATE_TABLE, WAL_INSERT, WAL_UPDATE, WAL_DELETE, WAL_DROP_TABLE}

\* every operation record of w has a CHECKPOINT right after it
Checkpointed(w) ==
    \A k \in 1..Len(w) :
       w[k].Type \in OperationRecords => (k < Len(w) /\ w[k + 1].Type = WAL_CHECKPOINT)

C34_TimeoutClosesConnection ==
    [][\A c \in ConnInputs :
          Timeout(c) => (~conns'[c].open /\ calls'[c] = calls[c])]_vars

\* the half of it that concerns the engine: the call is left running
C34_TimeoutLeavesCallRunning ==
    [][\A c \in ConnInputs :
          Timeout(c) => (calls'[c] = calls[c] /\ calls'[c].pc # "idle")]_vars
\* a is the beginning of b
IsPrefix(a, b) == Len(a) <= Len(b) /\ SubSeq(b, 1, Len(a)) = a

\* C35: RollbackToSavepoint never adds operations to a transaction's buffer:
\* after the call the buffer is a prefix of the buffer before it and the named
\* savepoint is still there, so that an operation discarded by an earlier
\* RollbackToSavepoint never reappears
C35_RollbackToOnlyShortens ==
    [][\A s \in SavepointInputs \cup {UnknownSavepoint} :
          (RollbackToSavepoint(s) /\ last'.res = "") =>
             /\ IsPrefix(Elems(txObj'[currentTransaction].Operations), CurrentOps)
             /\ s \in DOMAIN txObj'[currentTransaction].Savepoints]_vars
\* C36: whenever the current-transaction slot is set, the transaction it
\* refers to is registered in the manager and Active; and every transaction
\* registered in the manager is Active: a terminated transaction is never
\* left registered or current
C36_RegisteredMeansActive ==
    /\ currentTransaction # 0 =>
          /\ currentTransaction \in transactions
          /\ txObj[currentTransaction].State = TransactionActive
    /\ \A id \in transactions : txObj[id].State = TransactionActive

\* the errors returned when a transaction record could not be written
WalErrors ==
    {"failed to write transaction begin to WAL: %w",
     "failed to write transaction rollback to WAL: %w",
     "failed to write savepoint to WAL: %w",
     "failed to write rollback to savepoint to WAL: %w"}

\* C37: if BeginTransaction, RollbackTransaction, CreateSavepoint or
\* RollbackToSavepoint returns an error because its WAL record could not be
\* written, the transaction manager is unchanged: no transaction was
\* registered, the state is still Active, buffer and savepoints are as before
C37_WalErrorChangesNothing ==
    [][last'.res \in WalErrors => UNCHANGED <<txObj, transactions>>]_vars

\* the row-index errors of applyUpdate and applyDelete
OutOfBounds == {"row index %d out of bounds", "row index out of bounds"}

Stored(tbls) ==
    [t \in DOMAIN tbls |-> [Columns |-> tbls[t].Columns, Rows |-> tbls[t].Rows,
                            IndexedColumns |-> tbls[t].IndexedColumns]]

\* C39: restart is idempotent: on every data directory the operations can
\* leave (committed transactions and TruncateWAL included), opening the
\* database twice in succession gives the same tables, rows and
\* indexed_columns as opening it once
C39_RestartIdempotent ==
    LET once == Reopen(files, wal)
        twice == Reopen(once.files, wal)
    IN  Stored(twice.tables) = Stored(once.tables)
====
